---- MODULE Spec2Model ----
(***************************************************************************)
(* A model of jsoncons' incremental push parser, basic_json_parser<CharT>  *)
(* (include/jsoncons/json_parser.hpp).  The parser object is the record    *)
(* held by the variable `parser`; its fields carry the names of the data   *)
(* members without the trailing underscore.  Characters are code units     *)
(* (integers), states and error kinds are the enumerators' names.          *)
(*                                                                         *)
(* What is outside the parser is modelled by what the parser sees of it:   *)
(*  - the event sink (handler_) is the sequence `events` of received calls *)
(*  - the error policy (err_handler_) is a set of error kinds on which     *)
(*    error() returns true (abort); `reports` lists the calls it received  *)
(*  - str_to_double_ either returns a value (represented by the text and   *)
(*    precision it was given) or throws                                    *)
(*  - unicons::validate accepts every span (the alphabet is 7-bit) and     *)
(*    unicons::convert appends the scalar value it is given                *)
(***************************************************************************)
EXTENDS Integers, Sequences, FiniteSets, TLC

VARIABLES
    parser,   \* the basic_json_parser object, plus ec / events / reports
    pc,       \* "idle" between calls; in parse(ec), "parse" at the loop
              \* condition and "body" in the loop body
    doc,      \* the text the caller is feeding
    fed,      \* how many characters of doc were handed over by set_source
    env,      \* the collaborators: error policy and str_to_double outcome
    call      \* the last call of the surface API, with what it started from

vars == <<parser, pc, doc, fed, env, call>>

-----------------------------------------------------------------------------
(* Bounds of the model *)

\* the sink records at most this many events (and the policy this many
\* reports); later ones are dropped and `overflow` is set
MaxEvents == 12

\* calls the caller makes outside the protocol
\*   [max_nesting_depth] (set_source parse)* end_parse check_done [reset ...]
\* that is after a call that reported an error, or after end_parse
MaxOdd == 1

\* width of the integer types of try_string_to_uinteger / _integer, scaled
\* down from 64
IntBits == 8

\* steps of the reference run used to compare against
MaxFuel == 40

\* set_source is called at most this many times for one document
MaxChunks == 3

-----------------------------------------------------------------------------
(* Characters *)

Code ==
    [c \in {"TAB", "LF", "CR", "CTRL", "SP", "QUOTE", "APOS", "BSLASH",
            "*", "+", ",", "-", ".", "/", ":", "[", "]", "{", "}",
            "0", "1", "2", "3", "4", "5", "6", "7", "8", "9",
            "A", "B", "C", "D", "E", "F",
            "a", "b", "c", "d", "e", "f", "l", "n", "r", "s", "t", "u", "x"} |->
        CASE c = "TAB" -> 9 [] c = "LF" -> 10 [] c = "CR" -> 13
          [] c = "CTRL" -> 1 [] c = "SP" -> 32 [] c = "QUOTE" -> 34
          [] c = "APOS" -> 39 [] c = "BSLASH" -> 92
          [] c = "*" -> 42 [] c = "+" -> 43 [] c = "," -> 44 [] c = "-" -> 45
          [] c = "." -> 46 [] c = "/" -> 47 [] c = ":" -> 58
          [] c = "[" -> 91 [] c = "]" -> 93 [] c = "{" -> 123 [] c = "}" -> 125
          [] c = "0" -> 48 [] c = "1" -> 49 [] c = "2" -> 50 [] c = "3" -> 51
          [] c = "4" -> 52 [] c = "5" -> 53 [] c = "6" -> 54 [] c = "7" -> 55
          [] c = "8" -> 56 [] c = "9" -> 57
          [] c = "A" -> 65 [] c = "B" -> 66 [] c = "C" -> 67
          [] c = "D" -> 68 [] c = "E" -> 69 [] c = "F" -> 70
          [] c = "a" -> 97 [] c = "b" -> 98 [] c = "c" -> 99 [] c = "d" -> 100
          [] c = "e" -> 101 [] c = "f" -> 102 [] c = "l" -> 108
          [] c = "n" -> 110 [] c = "r" -> 114 [] c = "s" -> 115
          [] c = "t" -> 116 [] c = "u" -> 117 [] c = "x" -> 120]

Ch(s) == Code[s]

Txt(s) == [i \in 1..Len(s) |-> Code[s[i]]]

\* JSONCONS_ILLEGAL_CONTROL_CHARACTER: 0x00-0x1f without \t \n \r
IllegalControl == (0..31) \ {9, 10, 13}

Digit0to9 == 48..57

Digit1to9 == 49..57

HexDigit == Digit0to9 \cup (97..102) \cup (65..70)

-----------------------------------------------------------------------------
(* Error kinds (json_parser_errc) and policies *)

NoErr == "ok"

\* what JSONCONS_ASSERT / JSONCONS_UNREACHABLE raise, as seen by the caller
AssertionFailed == "assertion_failed"

ErrKinds ==
    {"unexpected_eof", "invalid_json_text", "extra_character",
     "max_depth_exceeded", "single_quote", "illegal_control_character",
     "illegal_character_in_string", "extra_comma", "expected_name",
     "expected_value", "expected_colon", "expected_comma_or_right_brace",
     "expected_comma_or_right_bracket", "unexpected_right_brace",
     "unexpected_right_bracket", "illegal_comment",
     "illegal_escaped_character", "invalid_hex_escape_sequence",
     "expected_codepoint_surrogate_pair", "invalid_number", "leading_zero",
     "invalid_value"}

\* a policy is the set of kinds for which error(kind, ctx) returns true
AbortAll == ErrKinds

ContinueAll == {}

Policies ==
    {AbortAll, ContinueAll, {"extra_character"}, {"unexpected_eof"}}

-----------------------------------------------------------------------------
(* The parser object *)

IntMax == 2147483647

PrecisionBits == 8

\* the constructors, lines 201-288
NewParser ==
    [state         |-> "start",
     state_stack   |-> <<"root">>,
     nesting_depth |-> 0,
     max_depth     |-> IntMax,
     line          |-> 1,
     column        |-> 1,
     is_negative   |-> FALSE,
     string_buffer |-> <<>>,
     precision     |-> 0,
     cp            |-> 0,
     cp2           |-> 0,
     input         |-> <<>>,
     p             |-> 1,
     ec            |-> NoErr,
     events        |-> <<>>,
     reports       |-> <<>>,
     overflow      |-> FALSE]

end_input(m) == Len(m.input) + 1

source_exhausted(m) == m.p = end_input(m)

done(m) == m.state = "done"

cur(m) == m.input[m.p]

\* state_stack_.back(); "empty" stands for the failed JSONCONS_ASSERT
parent(m) ==
    IF Len(m.state_stack) = 0 THEN "empty"
    ELSE m.state_stack[Len(m.state_stack)]

push_state(m, s) == [m EXCEPT !.state_stack = Append(@, s)]

\* state_ = pop_state()
pop_to_state(m) ==
    [m EXCEPT !.state = parent(m),
              !.state_stack = SubSeq(@, 1, Len(@) - 1)]

\* ++p_; ++column_;
advance(m) == [m EXCEPT !.p = @ + 1, !.column = @ + 1]

advance_by(m, n) == [m EXCEPT !.p = @ + n, !.column = @ + n]

set_state(m, s) == [m EXCEPT !.state = s]

set_ec(m, kind) == [m EXCEPT !.ec = kind]

failed(m) == m.ec # NoErr

-----------------------------------------------------------------------------
(* The collaborators *)

Ev(k) == [k |-> k, t |-> <<>>, n |-> 0, b |-> FALSE]

EvText(k, t) == [k |-> k, t |-> t, n |-> 0, b |-> FALSE]

EvNum(k, n) == [k |-> k, t |-> <<>>, n |-> n, b |-> FALSE]

EvBool(b) == [k |-> "bool_value", t |-> <<>>, n |-> 0, b |-> b]

\* double_value(d, precision): d is str_to_double's result for text t,
\* negated when b
EvDouble(t, neg, prec) == [k |-> "double_value", t |-> t, n |-> prec, b |-> neg]

\* a call of handler_
emit(m, e) ==
    IF Len(m.events) < MaxEvents
    THEN [m EXCEPT !.events = Append(@, e)]
    ELSE [m EXCEPT !.overflow = TRUE]

\* a call of err_handler_.error(kind, *this) or fatal_error(kind, *this);
\* `abort` is what error returned, line and column what line_number() and
\* column_number() return to it, p where the cursor is in the span
report(m, kind, pol, fatal) ==
    LET r == [kind |-> kind, line |-> m.line, column |-> m.column,
              fatal |-> fatal, abort |-> (~fatal /\ kind \in pol),
              at |-> Len(m.events), p |-> m.p]
    IN IF Len(m.reports) < MaxEvents
       THEN [m EXCEPT !.reports = Append(@, r)]
       ELSE [m EXCEPT !.overflow = TRUE]

\* error() is called but what it returns is dropped
error_or_continue_unheeded(m, kind, pol) == report(m, kind, pol, FALSE)

\* if (err_handler_.error(kind, *this)) { ec = kind; return; }
error_or_continue(m, kind, pol) ==
    LET r == report(m, kind, pol, FALSE)
    IN IF kind \in pol THEN set_ec(r, kind) ELSE r

\* err_handler_.error(kind, *this); ec = kind; return;
error_always(m, kind, pol) == set_ec(report(m, kind, pol, FALSE), kind)

\* err_handler_.fatal_error(kind, *this); ec = kind; return;
fatal_error(m, kind, pol) == set_ec(report(m, kind, pol, TRUE), kind)

-----------------------------------------------------------------------------
(* Containers and values *)

\* f(ec); if (ec) return; ++p_; ++column_;
advance_unless_failed(r) == IF failed(r) THEN r ELSE advance(r)

skip_whitespace(m) ==
    LET n == CHOOSE k \in 0..(end_input(m) - m.p) :
                 /\ \A i \in 0..(k - 1) : m.input[m.p + i] \in {Ch("SP"), Ch("TAB")}
                 /\ (m.p + k = end_input(m)
                     \/ m.input[m.p + k] \notin {Ch("SP"), Ch("TAB")})
    IN advance_by(m, n)

\* if (parent() == root) { state_ = done; end_json(); } else
\* state_ = expect_comma_or_end;
after_close(m) ==
    IF parent(m) = "root"
    THEN emit(set_state(m, "done"), Ev("end_json"))
    ELSE set_state(m, "expect_comma_or_end")

\* one container more than the cap is let through
do_begin_object_exceeds_late(m) == m.nesting_depth > m.max_depth

do_begin_object_exceeds(m) == m.nesting_depth + 1 >= m.max_depth

do_begin_object(m, pol) ==
    LET m1 == [m EXCEPT !.nesting_depth = @ + 1]
        m2 == IF do_begin_object_exceeds(m)
              THEN error_or_continue(m1, "max_depth_exceeded", pol)
              ELSE m1
    IN IF failed(m2) THEN m2
       ELSE emit(set_state(push_state(m2, "object"), "expect_member_name_or_end"),
                 Ev("begin_object"))

\* the popped frame is not looked at
do_end_object_unmatched(m, pol) ==
    after_close(emit(pop_to_state([m EXCEPT !.nesting_depth = @ - 1]),
                     Ev("end_object")))

do_end_object(m, pol) ==
    LET m1 == pop_to_state([m EXCEPT !.nesting_depth = @ - 1])
    IN IF m1.state = "object"
       THEN after_close(emit(m1, Ev("end_object")))
       ELSE IF m1.state = "array"
       THEN fatal_error(m1, "expected_comma_or_right_bracket", pol)
       ELSE fatal_error(m1, "unexpected_right_brace", pol)

do_begin_array(m, pol) ==
    LET m1 == [m EXCEPT !.nesting_depth = @ + 1]
        m2 == IF m.nesting_depth + 1 >= m.max_depth
              THEN error_or_continue(m1, "max_depth_exceeded", pol)
              ELSE m1
    IN IF failed(m2) THEN m2
       ELSE emit(set_state(push_state(m2, "array"), "expect_value_or_end"),
                 Ev("begin_array"))

\* the depth counter is left as it was
do_end_array_uncounted(m, pol) ==
    LET m1 == pop_to_state(m)
    IN IF m1.state = "array"
       THEN after_close(emit(m1, Ev("end_array")))
       ELSE IF m1.state = "object"
       THEN fatal_error(m1, "expected_comma_or_right_brace", pol)
       ELSE fatal_error(m1, "unexpected_right_bracket", pol)

do_end_array(m, pol) ==
    LET m1 == pop_to_state([m EXCEPT !.nesting_depth = @ - 1])
    IN IF m1.state = "array"
       THEN after_close(emit(m1, Ev("end_array")))
       ELSE IF m1.state = "object"
       THEN fatal_error(m1, "expected_comma_or_right_brace", pol)
       ELSE fatal_error(m1, "unexpected_right_bracket", pol)

begin_member_or_element(m, pol) ==
    CASE parent(m) = "object" -> set_state(m, "expect_member_name")
      [] parent(m) = "array" -> set_state(m, "expect_value")
      [] parent(m) = "root" -> m
      [] OTHER -> error_or_continue(m, "invalid_json_text", pol)

\* after a name the machine waits for another name
end_string_value_no_colon(m, s, pol) ==
    CASE parent(m) = "member_name" ->
            set_state(pop_to_state(emit(m, EvText("name", s))),
                      "expect_member_name")
      [] parent(m) \in {"object", "array"} ->
            set_state(emit(m, EvText("string_value", s)), "expect_comma_or_end")
      [] parent(m) = "root" ->
            emit(set_state(emit(m, EvText("string_value", s)), "done"),
                 Ev("end_json"))
      [] OTHER -> error_or_continue(m, "invalid_json_text", pol)

\* the name sent with the member_name frame left on the stack
end_string_value_unpopped(m, s, pol) ==
    CASE parent(m) = "member_name" ->
            set_state(emit(m, EvText("name", s)), "expect_colon")
      [] parent(m) \in {"object", "array"} ->
            set_state(emit(m, EvText("string_value", s)), "expect_comma_or_end")
      [] parent(m) = "root" ->
            emit(set_state(emit(m, EvText("string_value", s)), "done"),
                 Ev("end_json"))
      [] OTHER -> error_or_continue(m, "invalid_json_text", pol)

end_string_value(m, s, pol) ==
    CASE parent(m) = "member_name" ->
            set_state(pop_to_state(emit(m, EvText("name", s))), "expect_colon")
      [] parent(m) \in {"object", "array"} ->
            set_state(emit(m, EvText("string_value", s)), "expect_comma_or_end")
      [] parent(m) = "root" ->
            emit(set_state(emit(m, EvText("string_value", s)), "done"),
                 Ev("end_json"))
      [] OTHER -> error_or_continue(m, "invalid_json_text", pol)

\* the tail of handler_.bool_value / null_value in the keyword states and in
\* parse_true / parse_null / parse_false
after_keyword(m) ==
    IF parent(m) = "root"
    THEN emit(set_state(m, "done"), Ev("end_json"))
    ELSE set_state(m, "expect_comma_or_end")

-----------------------------------------------------------------------------
(* Numbers *)

UIntMax == 2^IntBits - 1

IntMin == -(2^(IntBits - 1))

\* C++ integer division truncates towards zero
TruncDiv(a, b) == IF a >= 0 THEN a \div b ELSE -((-a) \div b)

\* try_string_to_uinteger: [ok, result]; n never exceeds max_value
RECURSIVE uinteger_from(_, _, _)
uinteger_from(s, i, n) ==
    IF i > Len(s) THEN [ok |-> TRUE, result |-> n]
    ELSE LET x == s[i] - Ch("0")
         IN IF n > UIntMax \div 10 THEN [ok |-> FALSE, result |-> 0]
            ELSE IF n * 10 > UIntMax - x THEN [ok |-> FALSE, result |-> 0]
            ELSE uinteger_from(s, i + 1, n * 10 + x)

\* the accumulator wraps instead of reporting overflow
RECURSIVE wrapping_from(_, _, _)
wrapping_from(s, i, n) ==
    IF i > Len(s) THEN [ok |-> TRUE, result |-> n]
    ELSE wrapping_from(s, i + 1, (n * 10 + (s[i] - Ch("0"))) % (2^IntBits))

try_string_to_uinteger_wrapping(s) == wrapping_from(s, 1, 0)

try_string_to_uinteger(s) == uinteger_from(s, 1, 0)

\* try_string_to_integer with has_neg = true
RECURSIVE integer_from(_, _, _)
integer_from(s, i, n) ==
    IF i > Len(s) THEN [ok |-> TRUE, result |-> n]
    ELSE LET x == s[i] - Ch("0")
         IN IF n < TruncDiv(IntMin, 10) THEN [ok |-> FALSE, result |-> 0]
            ELSE IF n * 10 < IntMin + x THEN [ok |-> FALSE, result |-> 0]
            ELSE integer_from(s, i + 1, n * 10 - x)

try_string_to_integer(s) == integer_from(s, 1, 0)

\* the switch (parent()) that ends end_fraction_value and end_integer_value
after_number(m, pol) ==
    CASE parent(m) \in {"array", "object"} -> set_state(m, "expect_comma_or_end")
      [] parent(m) = "root" -> emit(set_state(m, "done"), Ev("end_json"))
      [] OTHER -> error_or_continue(m, "invalid_json_text", pol)

\* the sign of the number is left set
clear_number_keeping_sign(m) == [m EXCEPT !.string_buffer = <<>>]

clear_number(m) == [m EXCEPT !.string_buffer = <<>>, !.is_negative = FALSE]

\* try { d = str_to_double_(...); double_value(...) } catch (...) { ... }
\* a failed conversion reported and nothing sent in place of the number
emit_double_unrecovered(m, prec, pol, dbl_ok) ==
    IF dbl_ok
    THEN emit(m, EvDouble(m.string_buffer, m.is_negative, prec))
    ELSE error_or_continue(m, "invalid_number", pol)

emit_double(m, prec, pol, dbl_ok) ==
    IF dbl_ok
    THEN emit(m, EvDouble(m.string_buffer, m.is_negative, prec))
    ELSE LET r == error_or_continue(m, "invalid_number", pol)
         IN IF failed(r) THEN r ELSE emit(r, Ev("null_value"))

end_fraction_value(m, pol, dbl_ok) ==
    LET m1 == emit_double(m, m.precision, pol, dbl_ok)
    IN IF failed(m1) THEN m1
       ELSE after_number(clear_number(m1), pol)

end_integer_value(m, pol, dbl_ok) ==
    LET len == Len(m.string_buffer) % (2^PrecisionBits)
        i   == try_string_to_integer(m.string_buffer)
        u   == try_string_to_uinteger(m.string_buffer)
        m1  == IF m.is_negative
               THEN IF i.ok THEN emit(m, EvNum("integer_value", i.result))
                    ELSE emit_double(m, len, pol, dbl_ok)
               ELSE IF u.ok THEN emit(m, EvNum("uinteger_value", u.result))
                    ELSE emit_double(m, len, pol, dbl_ok)
        m2  == IF failed(m1) THEN m1 ELSE after_number(m1, pol)
    IN IF failed(m2) THEN m2 ELSE clear_number(m2)

\* a number may end right after its decimal point
PendingNumberOrPoint == {"zero", "integer", "fraction1", "fraction2", "exp3"}

\* the labels under which a number may end: those end_parse flushes
PendingNumber == {"zero", "integer", "fraction2", "exp3"}

NumberTerminators ==
    {Ch("CR"), Ch("LF"), Ch("SP"), Ch("TAB"), Ch("/"), Ch("}"), Ch("]"), Ch(",")}

\* end_integer_value(ec) under zero and integer, end_fraction_value(ec)
\* under fraction2 and exp3
end_number(m, label, pol, dbl_ok) ==
    IF label \in {"zero", "integer"}
    THEN end_integer_value(m, pol, dbl_ok)
    ELSE end_fraction_value(m, pol, dbl_ok)

\* ++p_; ++column_; after do_end_object / do_end_array: under zero the
\* cursor moves before ec is looked at (lines 1603-1606, 1611-1614)
advance_after_close(r, label) ==
    IF failed(r) /\ label # "zero" THEN r ELSE advance(r)

\* what follows the value under the cases '\r' '\n' ' ' '\t' '/' '}' ']' ','
after_terminator(m, c, label, pol) ==
    IF failed(m) THEN m
    ELSE CASE c = Ch("CR") -> set_state(push_state(advance(m), m.state), "cr")
           [] c = Ch("LF") -> set_state(push_state(advance(m), m.state), "lf")
           [] c \in {Ch("SP"), Ch("TAB")} -> skip_whitespace(m)
           [] c = Ch("/") -> set_state(push_state(advance(m), m.state), "slash")
           [] c = Ch("}") -> advance_after_close(do_end_object(m, pol), label)
           [] c = Ch("]") -> advance_after_close(do_end_array(m, pol), label)
           [] c = Ch(",") ->
                 advance_unless_failed(begin_member_or_element(m, pol))

\* the cases '\r' '\n' ' ' '\t' '/' '}' ']' ',' of the labels zero, integer,
\* fraction2 and exp3
number_terminator(m, label, pol, dbl_ok) ==
    after_terminator(end_number(m, label, pol, dbl_ok), cur(m), label, pol)

\* string_buffer_.push_back(*p_); ++p_; ++column_;
take_char(m) == advance([m EXCEPT !.string_buffer = Append(@, cur(m))])

\* precision_ = static_cast<uint8_t>(string_buffer_.length());
set_precision(m) ==
    [m EXCEPT !.precision = Len(m.string_buffer) % (2^PrecisionBits)]

\* ++precision_;
inc_precision(m) == [m EXCEPT !.precision = (@ + 1) % (2^PrecisionBits)]

\* the digits that follow one another from the cursor on: as many times the
\* digit case of integer (lines 1699-1704) or of fraction2 (1806-1812)
\* jumps back to its own label
digit_run(m) ==
    LET stops == { i \in m.p..Len(m.input) : m.input[i] \notin Digit0to9 }
        stop  == IF stops = {} THEN Len(m.input) + 1
                 ELSE CHOOSE i \in stops : \A j \in stops : i <= j
    IN stop - m.p

\* string_buffer_.push_back(*p_); ++p_; ++column_; n times
take_digits(m, n) ==
    [m EXCEPT !.string_buffer = @ \o SubSeq(m.input, m.p, m.p + n - 1),
              !.p = @ + n, !.column = @ + n]

\* ++precision_; n times
add_precision(m, n) == [m EXCEPT !.precision = (@ + n) % (2^PrecisionBits)]

\* parse_number from one of its labels on
RECURSIVE number_at(_, _, _, _)
number_at(m, label, pol, dbl_ok) ==
    IF m.p >= end_input(m) THEN set_state(m, label)
    ELSE IF label \in PendingNumber /\ cur(m) \in NumberTerminators
    THEN number_terminator(m, label, pol, dbl_ok)
    ELSE LET c == cur(m) IN
    CASE label = "minus" ->
            IF c = Ch("0") THEN number_at(take_char(m), "zero", pol, dbl_ok)
            ELSE IF c \in Digit1to9
            THEN number_at(take_char(m), "integer", pol, dbl_ok)
            ELSE set_state(error_always(m, "expected_value", pol), "minus")
      [] label = "zero" ->
            IF c = Ch(".")
            THEN number_at(take_char(set_precision(m)), "fraction1", pol, dbl_ok)
            ELSE IF c \in {Ch("e"), Ch("E")}
            THEN number_at(take_char(set_precision(m)), "exp1", pol, dbl_ok)
            ELSE IF c \in Digit0to9
            THEN set_state(error_always(m, "leading_zero", pol), "zero")
            ELSE set_state(error_always(m, "invalid_number", pol), "zero")
      [] label = "integer" ->
            IF c \in Digit0to9
            THEN number_at(take_digits(m, digit_run(m)), "integer", pol, dbl_ok)
            ELSE IF c = Ch(".")
            THEN number_at(take_char(set_precision(m)), "fraction1", pol, dbl_ok)
            ELSE IF c \in {Ch("e"), Ch("E")}
            THEN number_at(take_char(set_precision(m)), "exp1", pol, dbl_ok)
            ELSE set_state(error_always(m, "invalid_number", pol), "integer")
      [] label = "fraction1" ->
            IF c \in Digit0to9
            THEN number_at(take_char(inc_precision(m)), "fraction2", pol, dbl_ok)
            ELSE set_state(error_always(m, "invalid_number", pol), "fraction1")
      [] label = "fraction2" ->
            IF c \in Digit0to9
            THEN number_at(take_digits(add_precision(m, digit_run(m)), digit_run(m)),
                           "fraction2", pol, dbl_ok)
            ELSE IF c \in {Ch("e"), Ch("E")}
            THEN number_at(take_char(m), "exp1", pol, dbl_ok)
            ELSE set_state(error_always(m, "invalid_number", pol), "fraction2")
      [] label = "exp1" ->
            IF c = Ch("+") THEN number_at(advance(m), "exp2", pol, dbl_ok)
            ELSE IF c = Ch("-") THEN number_at(take_char(m), "exp2", pol, dbl_ok)
            ELSE IF c \in Digit0to9
            THEN number_at(take_char(m), "exp3", pol, dbl_ok)
            ELSE set_state(error_always(m, "expected_value", pol), "exp1")
      [] label = "exp2" ->
            IF c \in Digit0to9
            THEN number_at(take_char(m), "exp3", pol, dbl_ok)
            ELSE set_state(error_always(m, "expected_value", pol), "exp2")
      [] label = "exp3" ->
            IF c \in Digit0to9
            THEN number_at(take_char(m), "exp3", pol, dbl_ok)
            ELSE set_state(error_always(m, "invalid_number", pol), "exp3")

parse_number(m, pol, dbl_ok) == number_at(m, m.state, pol, dbl_ok)

NumberStates ==
    {"minus", "zero", "integer", "fraction1", "fraction2", "exp1", "exp2", "exp3"}

-----------------------------------------------------------------------------
(* Strings *)

\* [sb, p_)
span(m, sb) == SubSeq(m.input, sb, m.p - 1)

\* column_ += (p_ - sb + 1);
column_past(m, sb) == [m EXCEPT !.column = @ + (m.p - sb + 1)]

append_buffer(m, t) == [m EXCEPT !.string_buffer = @ \o t]

\* append_to_codepoint for a hexadecimal digit c
hex_value(c) ==
    IF c \in Digit0to9 THEN c - Ch("0")
    ELSE IF c \in 97..102 THEN c - Ch("a") + 10
    ELSE c - Ch("A") + 10

\* append_codepoint(*p_, ec)
append_codepoint(m, pol) ==
    IF cur(m) \in HexDigit
    THEN [m EXCEPT !.cp = @ * 16 + hex_value(cur(m))]
    ELSE error_or_continue(m, "expected_value", pol)

\* append_second_codepoint(*p_, ec)
append_second_codepoint(m, pol) ==
    IF cur(m) \in HexDigit
    THEN [m EXCEPT !.cp2 = @ * 16 + hex_value(cur(m))]
    ELSE error_or_continue(m, "expected_value", pol)

\* unicons::is_high_surrogate
is_high_surrogate(cp) == cp >= 55296 /\ cp <= 56319

\* the second code unit added without its mask
surrogate_scalar_unmasked(cp, cp2) == 65536 + ((cp % 1024) * 1024) + cp2

\* 0x10000 + ((cp_ & 0x3FF) << 10) + (cp2_ & 0x3FF)
surrogate_scalar(cp, cp2) == 65536 + ((cp % 1024) * 1024) + (cp2 % 1024)

\* the escaped character taken as it is written
escaped_char_raw(c) == c

\* the character an escape stands for
escaped_char(c) ==
    CASE c = Ch("b") -> 8 [] c = Ch("f") -> 12 [] c = Ch("n") -> 10
      [] c = Ch("r") -> 13 [] c = Ch("t") -> 9 [] OTHER -> c

SimpleEscapes ==
    {Ch("QUOTE"), Ch("BSLASH"), Ch("/"), Ch("b"), Ch("f"), Ch("n"), Ch("r"), Ch("t")}

\* the state pushed under cr / lf when a raw line break is kept (lines
\* 2051, 2074): state_ is still what it was when parse_string was entered
string_break_saved_state(m) == m.state

next_escape_u(label) ==
    CASE label = "escape_u1" -> "escape_u2" [] label = "escape_u2" -> "escape_u3"
      [] label = "escape_u3" -> "escape_u4" [] label = "escape_u6" -> "escape_u7"
      [] label = "escape_u7" -> "escape_u8" [] label = "escape_u8" -> "escape_u9"

\* parse_string from one of its labels on; sb is the start of the raw span
RECURSIVE string_at(_, _, _, _)
string_at(m, label, sb, pol) ==
    IF m.p >= end_input(m)
    THEN IF label = "string_u1"
         THEN set_state(column_past(append_buffer(m, span(m, sb)), sb), "string_u1")
         ELSE set_state(m, label)
    ELSE LET c == cur(m) IN
    CASE label = "string_u1" ->
            IF c \in IllegalControl
            THEN LET m1 == error_or_continue(column_past(m, sb),
                                             "illegal_control_character", pol)
                 IN IF failed(m1) THEN set_state(m1, "string_u1")
                    ELSE set_state([append_buffer(m1, span(m, sb))
                                       EXCEPT !.p = @ + 1], "string_u1")
            ELSE IF c \in {Ch("CR"), Ch("LF")}
            THEN LET m1 == error_or_continue(column_past(m, sb),
                                             "illegal_character_in_string", pol)
                 IN IF failed(m1) THEN set_state(m1, "string_u1")
                    ELSE set_state(
                           push_state([append_buffer(m1, Append(span(m, sb), c))
                                          EXCEPT !.p = @ + 1],
                                      string_break_saved_state(m1)),
                           IF c = Ch("CR") THEN "cr" ELSE "lf")
            ELSE IF c = Ch("TAB")
            THEN LET m1 == error_or_continue(column_past(m, sb),
                                             "illegal_character_in_string", pol)
                 IN IF failed(m1) THEN set_state(m1, "string_u1")
                    ELSE set_state([append_buffer(m1, Append(span(m, sb), c))
                                       EXCEPT !.p = @ + 1], "string_u1")
            ELSE IF c = Ch("BSLASH")
            THEN string_at([column_past(append_buffer(m, span(m, sb)), sb)
                               EXCEPT !.p = @ + 1],
                           "escape", sb, pol)
            ELSE IF c = Ch("QUOTE")
            THEN LET m1 == IF Len(m.string_buffer) = 0
                           THEN end_string_value(m, span(m, sb), pol)
                           ELSE [end_string_value(m, m.string_buffer \o span(m, sb), pol)
                                    EXCEPT !.string_buffer = <<>>]
                 IN IF failed(m1) THEN m1
                    ELSE [column_past(m1, sb) EXCEPT !.p = @ + 1]
            ELSE string_at([m EXCEPT !.p = @ + 1], "string_u1", sb, pol)
      [] label = "escape" ->
            IF c \in SimpleEscapes
            THEN string_at(advance(append_buffer(m, <<escaped_char(c)>>)),
                           "string_u1", m.p + 1, pol)
            ELSE IF c = Ch("u")
            THEN string_at(advance([m EXCEPT !.cp = 0]), "escape_u1", sb, pol)
            ELSE set_state(error_always(m, "illegal_escaped_character", pol), "escape")
      [] label \in {"escape_u1", "escape_u2", "escape_u3"} ->
            LET m1 == append_codepoint(m, pol)
            IN IF failed(m1) THEN set_state(m1, label)
               ELSE string_at(advance(m1), next_escape_u(label), sb, pol)
      [] label = "escape_u4" ->
            LET m1 == append_codepoint(m, pol)
            IN IF failed(m1) THEN set_state(m1, label)
               ELSE IF is_high_surrogate(m1.cp)
               THEN string_at(advance(m1), "escape_expect_surrogate_pair1", sb, pol)
               ELSE set_state(advance(append_buffer(m1, <<m1.cp>>)), "string_u1")
      [] label = "escape_expect_surrogate_pair1" ->
            IF c = Ch("BSLASH")
            THEN string_at(advance([m EXCEPT !.cp2 = 0]),
                           "escape_expect_surrogate_pair2", sb, pol)
            ELSE set_state(error_always(m, "expected_codepoint_surrogate_pair", pol),
                           label)
      [] label = "escape_expect_surrogate_pair2" ->
            IF c = Ch("u")
            THEN string_at(advance(m), "escape_u6", sb, pol)
            ELSE set_state(error_always(m, "expected_codepoint_surrogate_pair", pol),
                           label)
      [] label \in {"escape_u6", "escape_u7", "escape_u8"} ->
            LET m1 == append_second_codepoint(m, pol)
            IN IF failed(m1) THEN set_state(m1, label)
               ELSE string_at(advance(m1), next_escape_u(label), sb, pol)
      [] label = "escape_u9" ->
            LET m1 == append_second_codepoint(m, pol)
            IN IF failed(m1) THEN set_state(m1, label)
               ELSE string_at(
                      advance(append_buffer(m1, <<surrogate_scalar(m1.cp, m1.cp2)>>)),
                      "string_u1", m.p + 1, pol)

parse_string(m, pol) == string_at(m, m.state, m.p, pol)

StringStates ==
    {"string_u1", "escape", "escape_u1", "escape_u2", "escape_u3", "escape_u4",
     "escape_expect_surrogate_pair1", "escape_expect_surrogate_pair2",
     "escape_u6", "escape_u7", "escape_u8", "escape_u9"}

-----------------------------------------------------------------------------
(* Keywords *)

\* a look-ahead of one character only
lookahead_matches_first(m, k) == m.input[m.p + 1] = k[2]

\* *(p_+1) == k[2] && *(p_+2) == k[3] && ...
lookahead_matches(m, k) == \A i \in 2..Len(k) : m.input[m.p + i - 1] = k[i]

\* a look-ahead that is begun when all but one character are there
keyword_fits_short(m, k) == end_input(m) - m.p >= Len(k) - 1

\* end_input_ - p_ >= 4 (5 in parse_false)
keyword_fits(m, k) == end_input(m) - m.p >= Len(k)

\* parse_null / parse_true / parse_false: k is the keyword, e its event and
\* first the state entered when fewer than Len(k) characters remain
parse_keyword(m, k, e, first, pol) ==
    IF keyword_fits(m, k)
    THEN IF lookahead_matches(m, k)
         THEN after_keyword(advance_by(emit(m, e), Len(k)))
         ELSE error_always(m, "invalid_value", pol)
    ELSE set_state(advance(m), first)

parse_null(m, pol) ==
    parse_keyword(m, Txt(<<"n", "u", "l", "l">>), Ev("null_value"), "n", pol)

parse_true(m, pol) ==
    parse_keyword(m, Txt(<<"t", "r", "u", "e">>), EvBool(TRUE), "t", pol)

parse_false(m, pol) ==
    parse_keyword(m, Txt(<<"f", "a", "l", "s", "e">>), EvBool(FALSE), "f", pol)

\* the states n nu nul t tr tru f fa fal fals: [expected character, next
\* state or "" when the keyword is complete, event]
KeywordStates ==
    [n    |-> [c |-> Ch("u"), next |-> "nu",   e |-> Ev("null_value")],
     nu   |-> [c |-> Ch("l"), next |-> "nul",  e |-> Ev("null_value")],
     nul  |-> [c |-> Ch("l"), next |-> "",     e |-> Ev("null_value")],
     t    |-> [c |-> Ch("r"), next |-> "tr",   e |-> EvBool(TRUE)],
     tr   |-> [c |-> Ch("u"), next |-> "tru",  e |-> EvBool(TRUE)],
     tru  |-> [c |-> Ch("e"), next |-> "",     e |-> EvBool(TRUE)],
     f    |-> [c |-> Ch("a"), next |-> "fa",   e |-> EvBool(FALSE)],
     fa   |-> [c |-> Ch("l"), next |-> "fal",  e |-> EvBool(FALSE)],
     fal  |-> [c |-> Ch("s"), next |-> "fals", e |-> EvBool(FALSE)],
     fals |-> [c |-> Ch("e"), next |-> "",     e |-> EvBool(FALSE)]]

keyword_state(m, pol) ==
    LET k == KeywordStates[m.state]
    IN IF cur(m) # k.c THEN error_always(m, "invalid_value", pol)
       ELSE IF k.next # "" THEN set_state(advance(m), k.next)
       ELSE advance(after_keyword(emit(m, k.e)))

-----------------------------------------------------------------------------
(* One iteration of the loop of parse(ec), lines 511-1407 *)

CommonChars ==
    IllegalControl \cup {Ch("CR"), Ch("LF"), Ch("SP"), Ch("TAB"), Ch("/")}

\* what case parse_state::start does after an illegal control character on
\* which the policy continues (line 545: break, the cursor stays)
start_after_control(m) == m

\* the cases every structural state has: control characters, line breaks,
\* blanks and '/'
common_case(m, pol) ==
    LET c == cur(m) IN
    CASE c \in IllegalControl ->
            LET r == error_or_continue(m, "illegal_control_character", pol)
            IN IF failed(r) THEN r
               ELSE IF m.state = "start" THEN start_after_control(r)
               ELSE advance(r)
      [] c = Ch("CR") -> set_state(push_state(advance(m), m.state), "cr")
      [] c = Ch("LF") -> set_state(push_state(advance(m), m.state), "lf")
      [] c \in {Ch("SP"), Ch("TAB")} -> skip_whitespace(m)
      [] c = Ch("/") -> set_state(push_state(advance(m), m.state), "slash")

ValueChars ==
    {Ch("{"), Ch("["), Ch("QUOTE"), Ch("-"), Ch("n"), Ch("t"), Ch("f")}
        \cup Digit0to9

\* the cases that begin a value in start, expect_value, expect_value_or_end
value_case(m, pol) ==
    LET c == cur(m) IN
    CASE c = Ch("{") ->
            LET r == do_begin_object(m, pol) IN IF failed(r) THEN r ELSE advance(r)
      [] c = Ch("[") ->
            LET r == do_begin_array(m, pol) IN IF failed(r) THEN r ELSE advance(r)
      [] c = Ch("QUOTE") -> set_state(advance(m), "string_u1")
      [] c = Ch("-") -> set_state(advance([m EXCEPT !.is_negative = TRUE]), "minus")
      [] c = Ch("0") -> set_state(take_char(m), "zero")
      [] c \in Digit1to9 -> set_state(take_char(m), "integer")
      [] c = Ch("n") -> parse_null(m, pol)
      [] c = Ch("t") -> parse_true(m, pol)
      [] c = Ch("f") -> parse_false(m, pol)

\* if (err_handler_.error(kind, *this)) {...return;} ++p_; ++column_;
error_and_skip(m, kind, pol) ==
    LET r == error_or_continue(m, kind, pol)
    IN IF failed(r) THEN r ELSE advance(r)

\* handler_.begin_json() at the head of case parse_state::start
start_begin_json(m) == emit(m, Ev("begin_json"))

start_case(m, pol) ==
    LET m1 == start_begin_json(m)
        c  == cur(m)
    IN CASE c \in CommonChars -> common_case(m1, pol)
         [] c \in ValueChars -> value_case(m1, pol)
         [] c = Ch("}") -> fatal_error(m1, "unexpected_right_brace", pol)
         [] c = Ch("]") -> fatal_error(m1, "unexpected_right_bracket", pol)
         [] OTHER -> fatal_error(m1, "invalid_json_text", pol)

expect_comma_or_end_case(m, pol) ==
    LET c == cur(m) IN
    CASE c \in CommonChars -> common_case(m, pol)
      [] c = Ch("}") -> advance_unless_failed(do_end_object(m, pol))
      [] c = Ch("]") -> advance_unless_failed(do_end_array(m, pol))
      [] c = Ch(",") -> advance_unless_failed(begin_member_or_element(m, pol))
      [] OTHER ->
            IF parent(m) = "array"
            THEN error_and_skip(m, "expected_comma_or_right_bracket", pol)
            ELSE IF parent(m) = "object"
            THEN error_and_skip(m, "expected_comma_or_right_brace", pol)
            ELSE advance(m)

begin_member_name(m) ==
    set_state(push_state(advance(m), "member_name"), "string_u1")

expect_member_name_or_end_case(m, pol) ==
    LET c == cur(m) IN
    CASE c \in CommonChars -> common_case(m, pol)
      [] c = Ch("}") -> advance_unless_failed(do_end_object(m, pol))
      [] c = Ch("QUOTE") -> begin_member_name(m)
      [] c = Ch("APOS") -> error_and_skip(m, "single_quote", pol)
      [] OTHER -> error_and_skip(m, "expected_name", pol)

expect_member_name_case(m, pol) ==
    LET c == cur(m) IN
    CASE c \in CommonChars -> common_case(m, pol)
      [] c = Ch("QUOTE") -> begin_member_name(m)
      [] c = Ch("}") ->
            LET r == error_or_continue(m, "extra_comma", pol)
            IN IF failed(r) THEN r
               ELSE advance_unless_failed(do_end_object(r, pol))
      [] c = Ch("APOS") -> error_and_skip(m, "single_quote", pol)
      [] OTHER -> error_and_skip(m, "expected_name", pol)

expect_colon_case(m, pol) ==
    LET c == cur(m) IN
    CASE c \in CommonChars -> common_case(m, pol)
      [] c = Ch(":") -> set_state(advance(m), "expect_value")
      [] OTHER -> error_and_skip(m, "expected_colon", pol)

expect_value_case(m, pol) ==
    LET c == cur(m) IN
    CASE c \in CommonChars -> common_case(m, pol)
      [] c \in ValueChars -> value_case(m, pol)
      [] c = Ch("]") ->
            IF parent(m) = "array"
            THEN LET r == error_or_continue(m, "extra_comma", pol)
                 IN IF failed(r) THEN r
                    ELSE advance_unless_failed(do_end_array(r, pol))
            ELSE error_and_skip(m, "expected_value", pol)
      [] c = Ch("APOS") -> error_and_skip(m, "single_quote", pol)
      [] OTHER -> error_and_skip(m, "expected_value", pol)

expect_value_or_end_case(m, pol) ==
    LET c == cur(m) IN
    CASE c \in CommonChars -> common_case(m, pol)
      [] c \in ValueChars -> value_case(m, pol)
      [] c = Ch("]") -> advance_unless_failed(do_end_array(m, pol))
      [] c = Ch("APOS") -> error_and_skip(m, "single_quote", pol)
      [] OTHER -> error_and_skip(m, "expected_value", pol)

\* ++line_; column_ = 1;
new_line(m) == [m EXCEPT !.line = @ + 1, !.column = 1]

cr_case(m) ==
    IF cur(m) = Ch("LF")
    THEN [pop_to_state(new_line(m)) EXCEPT !.p = @ + 1]
    ELSE pop_to_state(new_line(m))

lf_case(m) == pop_to_state(new_line(m))

slash_case(m, pol) ==
    LET c == cur(m) IN
    CASE c = Ch("*") ->
            advance_unless_failed(
                error_or_continue(set_state(m, "slash_star"), "illegal_comment", pol))
      [] c = Ch("/") ->
            advance_unless_failed(
                error_or_continue(set_state(m, "slash_slash"), "illegal_comment", pol))
      [] OTHER -> error_and_skip(m, "invalid_json_text", pol)

slash_star_case(m) ==
    LET c == cur(m) IN
    CASE c = Ch("CR") -> advance(set_state(push_state(m, m.state), "cr"))
      [] c = Ch("LF") -> advance(set_state(push_state(m, m.state), "lf"))
      [] c = Ch("*") -> advance(set_state(m, "slash_star_star"))
      [] OTHER -> advance(m)

slash_slash_case(m) ==
    IF cur(m) \in {Ch("CR"), Ch("LF")} THEN pop_to_state(m) ELSE advance(m)

\* the saved state is read and its frame left on the stack
slash_star_star_case_unpopped(m) ==
    IF cur(m) = Ch("/") THEN advance(set_state(m, parent(m)))
    ELSE advance(set_state(m, "slash_star"))

slash_star_star_case(m) ==
    IF cur(m) = Ch("/") THEN advance(pop_to_state(m))
    ELSE advance(set_state(m, "slash_star"))

\* the body of while ((p_ < local_end_input) && (state_ != done))
parse_step(m, pol, dbl_ok) ==
    CASE m.state = "cr" -> cr_case(m)
      [] m.state = "lf" -> lf_case(m)
      [] m.state = "start" -> start_case(m, pol)
      [] m.state = "expect_comma_or_end" -> expect_comma_or_end_case(m, pol)
      [] m.state = "expect_member_name_or_end" ->
            expect_member_name_or_end_case(m, pol)
      [] m.state = "expect_member_name" -> expect_member_name_case(m, pol)
      [] m.state = "expect_colon" -> expect_colon_case(m, pol)
      [] m.state = "expect_value" -> expect_value_case(m, pol)
      [] m.state = "expect_value_or_end" -> expect_value_or_end_case(m, pol)
      [] m.state \in StringStates -> parse_string(m, pol)
      [] m.state \in NumberStates -> parse_number(m, pol, dbl_ok)
      [] m.state \in DOMAIN KeywordStates -> keyword_state(m, pol)
      [] m.state = "slash" -> slash_case(m, pol)
      [] m.state = "slash_star" -> slash_star_case(m)
      [] m.state = "slash_slash" -> slash_slash_case(m)
      [] m.state = "slash_star_star" -> slash_star_star_case(m)
      [] OTHER -> set_ec(m, AssertionFailed)

parse_loop_runs(m) == m.p < end_input(m) /\ m.state # "done"

-----------------------------------------------------------------------------
(* The surface API *)

\* the text collected so far is dropped with the old span
set_source_clearing(m, chunk) ==
    [m EXCEPT !.input = chunk, !.p = 1, !.string_buffer = <<>>]

set_source(m, chunk) == [m EXCEPT !.input = chunk, !.p = 1]

max_nesting_depth(m, n) ==
    [m EXCEPT !.max_depth = IF n < IntMax THEN n ELSE IntMax]

reset(m) ==
    [m EXCEPT !.state_stack = <<"root">>, !.state = "start",
              !.line = 1, !.column = 1, !.nesting_depth = 0]

\* the flush does not look at the state
end_parse_flushes_any_state(m) == parent(m) = "root"

\* the flush does not look at the enclosing frame
end_parse_flushes_anywhere(m) == m.state \in PendingNumber

end_parse_flushes(m) == parent(m) = "root" /\ m.state \in PendingNumber

end_parse(m, pol, dbl_ok) ==
    IF parent(m) = "empty" THEN set_ec(m, AssertionFailed)
    ELSE
    LET m1 == IF end_parse_flushes(m)
              THEN IF m.state \in {"zero", "integer"}
                   THEN end_integer_value(m, pol, dbl_ok)
                   ELSE end_fraction_value(m, pol, dbl_ok)
              ELSE m
        m2 == IF m1.state \in {"lf", "cr"} THEN pop_to_state(m1) ELSE m1
    IN IF failed(m1) THEN m1
       ELSE IF m2.state \notin {"done", "start"}
       THEN error_or_continue(m2, "unexpected_eof", pol)
       ELSE m2

Blank == {Ch("LF"), Ch("CR"), Ch("TAB"), Ch("SP")}

\* the for loop of check_done
RECURSIVE check_done_from(_, _)
check_done_from(m, pol) ==
    IF m.p = end_input(m) THEN m
    ELSE IF cur(m) \in Blank THEN check_done_from([m EXCEPT !.p = @ + 1], pol)
    ELSE LET r == error_or_continue(m, "extra_character", pol)
         IN IF failed(r) THEN r
            ELSE check_done_from([r EXCEPT !.p = @ + 1], pol)

check_done(m, pol) ==
    LET m1 == IF m.state # "done"
              THEN error_or_continue(m, "unexpected_eof", pol)
              ELSE m
    IN IF failed(m1) THEN m1 ELSE check_done_from(m1, pol)

\* parse(ec): the while loop, at most fuel iterations of it
RECURSIVE parse_from(_, _, _, _)
parse_from(m, pol, dbl_ok, fuel) ==
    IF failed(m) \/ ~parse_loop_runs(m) \/ fuel = 0 THEN m
    ELSE parse_from(parse_step(m, pol, dbl_ok), pol, dbl_ok, fuel - 1)

-----------------------------------------------------------------------------
(* Documents *)

WellFormed ==
    { Txt(d) : d \in {
        <<"1", "2">>,
        <<"-", "1">>,
        <<"0">>,
        <<"SP", "1">>,
        <<"SP", "SP", "1">>,
        <<"CR", "LF", "1">>,
        <<"LF", "t", "r", "u", "e">>,
        <<"1", ".", "5", "e", "2">>,
        <<"n", "u", "l", "l">>,
        <<"f", "a", "l", "s", "e">>,
        <<"QUOTE", "a", "b", "QUOTE">>,
        <<"QUOTE", "a", "BSLASH", "n", "b", "QUOTE">>,
        <<"QUOTE", "BSLASH", "u", "0", "0", "e", "9", "QUOTE">>,
        <<"[", "]">>,
        <<"{", "}">>,
        <<"[", "1", ",", "2", "]">>,
        <<"[", "[", "1", "]", "]">>,
        <<"[", "[", "[", "]", "]", "]">>,
        <<"[", "0", ".", "5", "]">>,
        <<"[", "1", "SP", ",", "t", "r", "u", "e", "]">>,
        <<"[", "n", "u", "l", "l", "]">>,
        <<"[", "-", "1", "e", "+", "2", "]">>,
        <<"{", "QUOTE", "a", "QUOTE", ":", "1", "}">>,
        <<"{", "QUOTE", "a", "QUOTE", ":", "[", "]", "}">>,
        <<"{", "QUOTE", "a", "QUOTE", ":", "0", ",", "QUOTE", "b", "QUOTE", ":", "{", "}", "}">>,
        <<"[", "1", "CR", "LF", "]">>,
        <<"1", "SP">>,
        <<"1", "LF">>
    } }

IllFormed ==
    { Txt(d) : d \in {
        <<"CTRL", "1">>,
        <<"[", "CTRL", "1", "]">>,
        <<"[", "1", ",", "]">>,
        <<"{", "QUOTE", "a", "QUOTE", ":", "1", ",", "}">>,
        <<"[", "1">>,
        <<"[", "1", ".", "5">>,
        <<"{", "QUOTE", "a", "QUOTE", ":", "0", "1", "}">>,
        <<"0", "1">>,
        <<"1", "}">>,
        <<"0", "]">>,
        <<"[", "1", "}">>,
        <<"{", "QUOTE", "a", "QUOTE", ":", "1", "]">>,
        <<"{", "QUOTE", "a", "QUOTE", "}">>,
        <<"{", "QUOTE", "a", "QUOTE", "1", "}">>,
        <<"{", "1", "}">>,
        <<"{", "QUOTE", "a", "QUOTE", ":", "}">>,
        <<"[", "1", "SP", "2", "]">>,
        <<"t", "r", "x", "e">>,
        <<"t", "x">>,
        <<"n", "u", "l">>,
        <<"-", "x">>,
        <<"1", ".", "x">>,
        <<"1", "e", "x">>,
        <<"1", "e", "+", "x">>,
        <<"1", ".">>,
        <<"1", "x">>,
        <<"1", "/", "/", "x", "LF", "2">>,
        <<"/", "/", "x", "LF", "1">>,
        <<"[", "/", "*", "*", "/", "1", "]">>,
        <<"[", "/", "*", "*", "*", "/", "1", "]">>,
        <<"[", "1", "/", "x", "]">>,
        <<"QUOTE", "a", "CR", "LF", "b", "QUOTE">>,
        <<"QUOTE", "BSLASH", "n", "CR", "x", "QUOTE">>,
        <<"QUOTE", "a", "TAB", "CTRL", "b", "QUOTE">>,
        <<"QUOTE", "BSLASH", "x", "QUOTE">>,
        <<"QUOTE", "BSLASH", "u", "0", "x", "4", "1", "QUOTE">>,
        <<"QUOTE", "BSLASH", "u", "D", "8", "0", "0", "x", "QUOTE">>,
        <<"QUOTE", "a">>,
        <<"[", "APOS", "]">>,
        <<"1", "SP", "x">>,
        <<"[", "]", "x">>,
        <<"0", ",">>,
        <<"[", "}">>,
        <<"{", "]">>,
        <<"x">>,
        <<"]">>
    } }

Docs == WellFormed \cup IllFormed

\* the documents fed after reset
ResetDocs == { Txt(d) : d \in { <<"1">>, <<"QUOTE", "a", "QUOTE">> } }

\* the decimal digits of n >= 0
RECURSIVE Decimal(_)
Decimal(n) ==
    IF n < 10 THEN <<Ch("0") + n>>
    ELSE Append(Decimal(n \div 10), Ch("0") + (n % 10))

\* the integer literals of NumSpec: every magnitude up to twice the range of
\* the unsigned type, with and without a minus sign
Magnitudes == 0..(2 * 2^IntBits)

NumDocs ==
    { Decimal(n) : n \in Magnitudes }
        \cup { <<Ch("-")>> \o Decimal(n) : n \in Magnitudes }

\* strings made of one or two \uXXXX escapes: the ends and one inner value of
\* the high and of the low surrogate range, a pair broken after its first
\* half, and escapes that are no surrogates
SurrogateHighs == { <<"D", "8", "0", "0">>, <<"D", "8", "3", "4">>, <<"D", "B", "F", "F">> }

SurrogateLows ==
    { <<"D", "C", "0", "0">>, <<"D", "D", "1", "E">>, <<"D", "F", "F", "F">>,
      <<"0", "0", "4", "1">> }

SurrogateDocs ==
    { Txt(<<"QUOTE", "BSLASH", "u">> \o h \o <<"BSLASH", "u">> \o l \o <<"QUOTE">>) :
        h \in SurrogateHighs, l \in SurrogateLows }
    \cup { Txt(d) : d \in {
        <<"QUOTE", "BSLASH", "u", "D", "8", "0", "0", "x", "QUOTE">>,
        <<"QUOTE", "BSLASH", "u", "D", "B", "F", "F", "BSLASH", "n", "QUOTE">>,
        <<"QUOTE", "BSLASH", "u", "D", "7", "F", "F", "BSLASH", "u", "D", "C", "0", "0", "QUOTE">>,
        <<"QUOTE", "BSLASH", "u", "0", "0", "e", "9", "x", "QUOTE">>
    } }

\* numbers that go through str_to_double: with a fraction or an exponent, or
\* out of the range of the integer types
DoubleDocs ==
    { Txt(d) : d \in {
        <<"1", ".", "5">>,
        <<"3", "0", "0">>,
        <<"-", "3", "0", "0">>,
        <<"[", "3", "0", "0", "]">>,
        <<"[", "-", "1", "e", "+", "2", ",", "1", "]">>,
        <<"[", "0", ".", "5", "SP", "]">>,
        <<"{", "QUOTE", "a", "QUOTE", ":", "2", "e", "1", "}">>,
        <<"[", "1", ".", "5">>
    } }

\* literals with a fraction or an exponent: short ones, and two whose digits
\* are as many as the values of precision_
PrecisionRange == 2^PrecisionBits

Repeated(c, n) == [i \in 1..n |-> c]

PrecisionDocs ==
    { Txt(d) : d \in {
        <<"1", ".", "5">>,
        <<"1", "2", "e", "2">>,
        <<"-", "0", ".", "2", "5", "E", "-", "1">>,
        <<"[", "1", "0", ".", "5", "e", "1", "0", "]">>,
        <<"1", ".">> \o Repeated("0", PrecisionRange - 1),
        Repeated("1", PrecisionRange) \o <<"e", "1">>
    } }

DepthCaps == {1, 2}

-----------------------------------------------------------------------------
(* The caller *)

FreeEnv == [free |-> TRUE, pol |-> AbortAll, dbl_ok |-> TRUE]

FixedEnvs == [free : {FALSE}, pol : Policies, dbl_ok : BOOLEAN]

\* the answers the collaborators may give during one step
Answers ==
    IF env.free THEN Policies \X BOOLEAN ELSE {<<env.pol, env.dbl_ok>>}

NoCall ==
    [op |-> "none", state |-> "start", top |-> "root", events |-> 0,
     chunks |-> 0, odd |-> 0, ended |-> FALSE, checked |-> FALSE,
     resets |-> 0, p |-> 0, unread |-> FALSE]

\* a call outside the protocol
IsOdd(op) ==
    op # "reset" /\ (failed(parser) \/ call.checked
                     \/ (call.ended /\ op # "check_done"))

\* the record of a call that starts now
Calling(op) ==
    [call EXCEPT !.op = op, !.state = parser.state, !.top = parent(parser),
                 !.events = Len(parser.events),
                 !.odd = IF IsOdd(op) THEN @ + 1 ELSE @,
                 !.ended = @ \/ op = "end_parse",
                 !.checked = @ \/ op = "check_done",
                 !.chunks = IF op = "set_source" THEN @ + 1 ELSE @,
                 !.p = IF op = "check_done" THEN parser.p ELSE 0]

MayCall(op) ==
    pc = "idle" /\ (IsOdd(op) => call.odd < MaxOdd /\ call.resets = 0)

\* the caller's std::error_code is fresh at every call; reports lists the
\* policy calls of the current call
Fresh(m) == [m EXCEPT !.ec = NoErr, !.reports = <<>>]

InitWith(docs, envs) ==
    /\ parser = NewParser
    /\ pc = "idle"
    /\ doc \in docs
    /\ fed = 0
    /\ env \in envs
    /\ call = NoCall

Init == InitWith(Docs, {FreeEnv})

\* the caller sets a depth cap before it feeds a document with containers
HasContainer(d) == \E i \in 1..Len(d) : d[i] \in {Ch("["), Ch("{")}

MaxNestingDepth ==
    /\ MayCall("max_nesting_depth") /\ call.op = "none"
    /\ HasContainer(doc)
    /\ \E n \in DepthCaps : parser' = max_nesting_depth(parser, n)
    /\ call' = Calling("max_nesting_depth")
    /\ UNCHANGED <<pc, doc, fed, env>>

SetSource ==
    /\ MayCall("set_source")
    /\ source_exhausted(parser) \/ call.op = "reset"
    /\ call.chunks < MaxChunks
    /\ \E n \in 1..(Len(doc) - fed) :
          /\ (call.chunks + 1 = MaxChunks => n = Len(doc) - fed)
          /\ parser' = set_source(Fresh(parser), SubSeq(doc, fed + 1, fed + n))
          /\ fed' = fed + n
    /\ call' = Calling("set_source")
    /\ UNCHANGED <<pc, doc, env>>

Parse ==
    /\ MayCall("parse")
    /\ parser' = Fresh(parser)
    /\ pc' = "parse"
    /\ call' = Calling("parse")
    /\ UNCHANGED <<doc, fed, env>>

\* the loop condition of parse(ec) holds: the body runs next
ParseWhile ==
    /\ pc = "parse"
    /\ parse_loop_runs(parser)
    /\ pc' = "body"
    /\ UNCHANGED <<parser, doc, fed, env, call>>

\* one run of the loop body
ParseStep ==
    /\ pc = "body"
    /\ \E a \in Answers : parser' = parse_step(parser, a[1], a[2])
    /\ pc' = IF failed(parser') THEN "idle" ELSE "parse"
    /\ UNCHANGED <<doc, fed, env, call>>

\* the loop condition fails: parse(ec) returns
ParseReturn ==
    /\ pc = "parse"
    /\ ~parse_loop_runs(parser)
    /\ pc' = "idle"
    /\ UNCHANGED <<parser, doc, fed, env, call>>

EndParse ==
    /\ MayCall("end_parse")
    /\ \E a \in Answers : parser' = end_parse(Fresh(parser), a[1], a[2])
    /\ call' = Calling("end_parse")
    /\ UNCHANGED <<pc, doc, fed, env>>

CheckDone ==
    /\ MayCall("check_done")
    /\ call.ended
    /\ \E a \in Answers : parser' = check_done(Fresh(parser), a[1])
    /\ call' = Calling("check_done")
    /\ UNCHANGED <<pc, doc, fed, env>>

\* reset(), after which the caller feeds another document to a sink and a
\* policy that start recording anew
Reset ==
    /\ MayCall("reset")
    /\ call.resets = 0 /\ call.op # "none"
    /\ parser' = [reset(Fresh(parser)) EXCEPT !.events = <<>>, !.overflow = FALSE]
    /\ doc' \in ResetDocs
    /\ fed' = 0
    /\ call' = [Calling("reset") EXCEPT !.resets = 1, !.ended = FALSE,
                                        !.checked = FALSE,
                                        !.chunks = MaxChunks - 1,
                                        !.unread = ~source_exhausted(parser)]
    /\ UNCHANGED <<pc, env>>

Next ==
    \/ MaxNestingDepth
    \/ SetSource
    \/ Parse
    \/ ParseWhile
    \/ ParseStep
    \/ ParseReturn
    \/ EndParse
    \/ CheckDone
    \/ Reset

Spec == Init /\ [][Next]_vars

\* the calls of the protocol up to end_parse
FeedNext ==
    \/ SetSource
    \/ Parse
    \/ ParseWhile
    \/ ParseStep
    \/ ParseReturn
    \/ EndParse

\* the caller feeds integer literals; str_to_double does not throw
NumInit == InitWith(NumDocs, [free : {FALSE}, pol : Policies, dbl_ok : {TRUE}])

NumSpec == NumInit /\ [][FeedNext]_vars

\* the caller feeds numbers that are converted by str_to_double
DoubleInit == InitWith(DoubleDocs, FixedEnvs)

DoubleSpec == DoubleInit /\ [][FeedNext]_vars

\* the caller feeds literals that are sent as double_value; str_to_double
\* does not throw and the policy continues
PrecisionInit ==
    InitWith(PrecisionDocs, [free : {FALSE}, pol : {ContinueAll}, dbl_ok : {TRUE}])

PrecisionSpec == PrecisionInit /\ [][FeedNext]_vars

\* the caller feeds strings of \u escapes
SurrogateInit == InitWith(SurrogateDocs, FixedEnvs)

SurrogateSpec == SurrogateInit /\ [][FeedNext]_vars

\* the collaborators answer the same way throughout a run
ChunkInit == InitWith(Docs, FixedEnvs)

ChunkSpec == ChunkInit /\ [][FeedNext]_vars

\* the protocol up to end_parse and reset(), the collaborators answering the
\* same way throughout
ResetNext ==
    \/ MaxNestingDepth
    \/ SetSource
    \/ Parse
    \/ ParseWhile
    \/ ParseStep
    \/ ParseReturn
    \/ EndParse
    \/ Reset

ResetSpec == ChunkInit /\ [][ResetNext]_vars

\* parse(ec) runs its loop until it returns: nothing else runs meanwhile
FairSpec ==
    /\ Init /\ [][FeedNext]_vars
    /\ WF_vars(ParseWhile) /\ WF_vars(ParseStep) /\ WF_vars(ParseReturn)

-----------------------------------------------------------------------------
(* Reading a run *)

\* the document handed over in one span to a new parser: set_source,
\* parse, and end_parse unless parse reported an error
WholeParsed(d, pol, dbl_ok) ==
    parse_from(set_source(NewParser, d), pol, dbl_ok, MaxFuel)

Whole(d, pol, dbl_ok) ==
    LET m == WholeParsed(d, pol, dbl_ok)
    IN IF failed(m) THEN m ELSE end_parse(Fresh(m), pol, dbl_ok)

WholeReturns(d, pol, dbl_ok) ==
    LET m == WholeParsed(d, pol, dbl_ok)
    IN failed(m) \/ ~parse_loop_runs(m)

\* the caller kept to the protocol so far: no call after an error, none
\* after end_parse, no reset
InProtocol == call.odd = 0 /\ call.resets = 0

\* end_parse has returned, after parse had consumed every span of the
\* document
Ended ==
    /\ pc = "idle" /\ call.op = "end_parse" /\ InProtocol
    /\ fed = Len(doc)
    /\ source_exhausted(parser) \/ call.state = "done"

\* the run of a caller that keeps to the protocol is over
RunOver ==
    /\ InProtocol /\ pc = "idle"
    /\ Ended \/ (call.op = "parse" /\ failed(parser))

CleanEnd == Ended /\ ~failed(parser) /\ ~parser.overflow

Count(es, k) == Cardinality({ i \in 1..Len(es) : es[i].k = k })

HasReport(kind) ==
    \E i \in 1..Len(parser.reports) : parser.reports[i].kind = kind

NumericKinds == {"uinteger_value", "integer_value", "double_value"}

ScalarKinds ==
    NumericKinds \cup {"string_value", "null_value", "bool_value"}

\* the events that end_parse, the last call, added
Added ==
    { i \in 1..Len(parser.events) : i > call.events }

-----------------------------------------------------------------------------
(* C1 *)

\* C1: however the document is cut into spans fed by successive set_source
\* and parse calls and end_parse, the sink receives the same events as when
\* the document is fed in one span, the policy and str_to_double answering
\* alike in both runs.
ChunkIndependent ==
    (RunOver /\ ~parser.overflow /\ WholeReturns(doc, env.pol, env.dbl_ok)) =>
        parser.events = Whole(doc, env.pol, env.dbl_ok).events

-----------------------------------------------------------------------------
(* C2 *)

\* C2: for a well-formed document, begin_json is the first event and occurs
\* once, end_json is the last event and occurs once.
BracketedOnce ==
    (doc \in WellFormed /\ CleanEnd) =>
        LET es == parser.events
        IN /\ Len(es) >= 2
           /\ es[1].k = "begin_json" /\ Count(es, "begin_json") = 1
           /\ es[Len(es)].k = "end_json" /\ Count(es, "end_json") = 1

-----------------------------------------------------------------------------
(* C3 *)

Top(st) == IF st = <<>> THEN "none" ELSE st[Len(st)]

Pop(st) == SubSeq(st, 1, Len(st) - 1)

\* the begin_object / begin_array events among es[1..n] that are not closed
\* yet, innermost last; "mismatch" on top once an end_X did not close the
\* innermost open begin_X
RECURSIVE unclosed(_, _)
unclosed(es, n) ==
    IF n = 0 THEN <<>>
    ELSE LET st == unclosed(es, n - 1)
             k  == es[n].k
         IN IF Top(st) = "mismatch" THEN st
            ELSE IF k \in {"begin_object", "begin_array"} THEN Append(st, k)
            ELSE IF k = "end_object"
            THEN IF Top(st) = "begin_object" THEN Pop(st)
                 ELSE Append(st, "mismatch")
            ELSE IF k = "end_array"
            THEN IF Top(st) = "begin_array" THEN Pop(st)
                 ELSE Append(st, "mismatch")
            ELSE st

\* C3: for every input and policy, each end_object / end_array closes the
\* innermost open begin of its kind, and in state done nothing is open.
ProperlyNested ==
    ~parser.overflow =>
        LET st == unclosed(parser.events, Len(parser.events))
        IN /\ Top(st) # "mismatch"
           /\ (parser.state = "done" => st = <<>>)

\* an array inside an object was opened and closed, after an error the
\* policy let pass
ProperlyNestedWitness ==
    /\ parser.state = "done" /\ ~parser.overflow
    /\ Count(parser.events, "end_array") >= 1
    /\ Count(parser.events, "end_object") >= 1
    /\ Len(parser.reports) >= 1

-----------------------------------------------------------------------------
(* C4 *)

\* what the open containers among es[1..n] wait for, innermost last: an
\* array is "array"; an object is "fresh" before its first name, "named"
\* after a name, "valued" after that name's value; "extra_value",
\* "name_after_name" or "end_after_name" on top once a name was not
\* followed by exactly one value
RECURSIVE members(_, _)
members(es, n) ==
    IF n = 0 THEN <<>>
    ELSE LET st == members(es, n - 1)
             k  == es[n].k
             t  == Top(st)
             valued == IF t = "named" THEN Append(Pop(st), "valued")
                       ELSE IF t = "valued" THEN Append(st, "extra_value")
                       ELSE st
         IN IF t \in {"extra_value", "name_after_name", "end_after_name"}
            THEN st
            ELSE IF k = "begin_object" THEN Append(valued, "fresh")
            ELSE IF k = "begin_array" THEN Append(valued, "array")
            ELSE IF k \in ScalarKinds THEN valued
            ELSE IF k = "name"
            THEN IF t = "named" THEN Append(st, "name_after_name")
                 ELSE IF t \in {"fresh", "valued"}
                 THEN Append(Pop(st), "named")
                 ELSE st
            ELSE IF k = "end_object"
            THEN IF t = "named" THEN Append(st, "end_after_name")
                 ELSE IF st = <<>> THEN st ELSE Pop(st)
            ELSE IF k = "end_array"
            THEN IF st = <<>> THEN st ELSE Pop(st)
            ELSE st

\* C4: between a name and the next name or the end_object of the same
\* object the sink receives exactly one value (a scalar or a whole
\* container).
OneValuePerName ==
    ~parser.overflow =>
        Top(members(parser.events, Len(parser.events)))
            \notin {"extra_value", "name_after_name", "end_after_name"}

\* an object with two members, the second one a container, was closed
OneValuePerNameWitness ==
    /\ ~parser.overflow
    /\ Count(parser.events, "name") = 2
    /\ Count(parser.events, "end_object") = 2
    /\ parser.state = "done"

-----------------------------------------------------------------------------
(* C5 *)

\* C5: when error(kind, ctx) returns true, the call in progress sets ec to
\* that kind and returns at once: the report is the call's last one and no
\* event follows it in that call.
AbortStops ==
    \A i \in 1..Len(parser.reports) :
        parser.reports[i].abort =>
            /\ i = Len(parser.reports)
            /\ parser.ec = parser.reports[i].kind
            /\ pc = "idle"
            /\ (~parser.overflow => Len(parser.events) = parser.reports[i].at)

\* parse returned on an abort with input left in its span and events
\* already sent
AbortStopsWitness ==
    /\ call.op = "parse" /\ pc = "idle"
    /\ Len(parser.reports) >= 1
    /\ parser.reports[Len(parser.reports)].abort
    /\ parser.p < end_input(parser) - 1
    /\ Len(parser.events) >= 2

-----------------------------------------------------------------------------
(* C6 *)

\* C6: parse sets ec only when the policy's error() returned true or when
\* fatal_error was called; when error() returns false ec stays unset.
EcOnlyOnAbort ==
    (call.op = "parse" /\ failed(parser) /\ parser.ec # AssertionFailed
        /\ ~parser.overflow) =>
        /\ Len(parser.reports) >= 1
        /\ LET r == parser.reports[Len(parser.reports)]
           IN r.abort \/ r.fatal

-----------------------------------------------------------------------------
(* C7 *)

\* C7: a call of parse terminates, whatever the span, the state it starts
\* in and the policy's answers.
ParseTerminates == (pc # "idle") ~> (pc = "idle")

-----------------------------------------------------------------------------
(* C8 *)

IsNegative(d) == d[1] = Ch("-")

\* the value of a string of decimal digits
RECURSIVE ValueOf(_)
ValueOf(s) ==
    IF s = <<>> THEN 0
    ELSE 10 * ValueOf(Pop(s)) + (s[Len(s)] - Ch("0"))

Magnitude(d) == ValueOf(IF IsNegative(d) THEN Tail(d) ELSE d)

\* what the literal d yields when the signed type takes the negative
\* literals down to IntMin and up to top
IntegerEventIs(d, e, top) ==
    LET v == Magnitude(d)
    IN IF ~IsNegative(d) /\ v <= UIntMax
       THEN e = EvNum("uinteger_value", v)
       ELSE IF IsNegative(d) /\ -v >= IntMin /\ -v <= top
       THEN e = EvNum("integer_value", -v)
       ELSE e = EvDouble(IF IsNegative(d) THEN Tail(d) ELSE d,
                         IsNegative(d), Len(d) - (IF IsNegative(d) THEN 1 ELSE 0))

\* C8 as stated: an integer literal yields uinteger_value(v) if it has no
\* minus sign and v is in [0, 2^w - 1], integer_value(v) if it has a minus
\* sign and v is in [-2^(w-1), -1], and double_value otherwise (w = IntBits).
IntegerByRange ==
    CleanEnd =>
        /\ Len(parser.events) = 3
        /\ IntegerEventIs(doc, parser.events[2], -1)

\* C8 amended: with a minus sign the range of integer_value is
\* [-2^(w-1), 0]: the literal -0 yields integer_value(0).
IntegerByRangeWithZero ==
    CleanEnd =>
        /\ Len(parser.events) = 3
        /\ IntegerEventIs(doc, parser.events[2], 0)

\* a literal just below the signed range came out as a double
IntegerByRangeWitness ==
    /\ CleanEnd
    /\ IsNegative(doc) /\ -Magnitude(doc) = IntMin - 1
    /\ parser.events[2].k = "double_value"

-----------------------------------------------------------------------------
(* C9 *)

\* C9: end_parse called in state zero, integer, fraction2 or exp3 with root
\* on top of the stack sends the numeric event and end_json, leaves state
\* done and reports nothing; and every end_parse reports unexpected_eof
\* exactly when it leaves a state other than done and start.  (A throwing
\* str_to_double is set aside: invalid_number is then reported.)
EndParseAtRoot ==
    (pc = "idle" /\ call.op = "end_parse" /\ ~parser.overflow
        /\ ~HasReport("invalid_number")) =>
        /\ (call.top = "root" /\ call.state \in PendingNumber) =>
              /\ Len(parser.events) = call.events + 2
              /\ parser.events[call.events + 1].k \in NumericKinds
              /\ parser.events[call.events + 2].k = "end_json"
              /\ parser.state = "done"
              /\ ~failed(parser) /\ parser.reports = <<>>
        /\ HasReport("unexpected_eof") <=> parser.state \notin {"done", "start"}

-----------------------------------------------------------------------------
(* C10 *)

\* C10: end_parse called in state zero, integer, fraction2 or exp3 inside
\* an array or object sends no numeric event and reports unexpected_eof.
EndParseInContainer ==
    (pc = "idle" /\ call.op = "end_parse" /\ ~parser.overflow
        /\ call.state \in PendingNumber /\ call.top \in {"array", "object"}) =>
        /\ \A i \in Added : parser.events[i].k \notin NumericKinds
        /\ HasReport("unexpected_eof")

\* end_parse has returned after a fraction was cut off inside an array
EndParseInContainerWitness ==
    /\ pc = "idle" /\ call.op = "end_parse" /\ ~parser.overflow
    /\ call.state = "fraction2" /\ call.top = "array"
    /\ HasReport("unexpected_eof")

-----------------------------------------------------------------------------
(* C11 *)

\* C11: when no character was ever handed to the parser (state still
\* start), end_parse reports unexpected_eof.
EmptyInputIsEof ==
    (pc = "idle" /\ call.op = "end_parse" /\ InProtocol
        /\ fed = 0 /\ call.chunks = 0 /\ call.state = "start") =>
        HasReport("unexpected_eof")

-----------------------------------------------------------------------------
(* C12 *)

\* characters that cannot belong to a value they follow
TrailChars == Blank \cup {Ch("x"), Ch(",")}

\* the document is a well-formed document followed by one more character
HasTrailing(d) ==
    /\ Len(d) >= 2
    /\ d[Len(d)] \in TrailChars
    /\ SubSeq(d, 1, Len(d) - 1) \in WellFormed

\* what was left of the span when check_done, the last call, began
LeftAtCall == SubSeq(parser.input, call.p, Len(parser.input))

AllBlank(t) == \A i \in 1..Len(t) : t[i] \in Blank

\* C12: check_done in state done reports nothing when the rest of the span
\* is blank and extra_character otherwise; and a character that follows a
\* completed root-level value, of whatever kind, is such a rest: if it is
\* not blank, extra_character is reported.
CheckDoneTrailing ==
    (pc = "idle" /\ call.op = "check_done" /\ call.state = "done"
        /\ ~parser.overflow) =>
        /\ AllBlank(LeftAtCall) => (parser.reports = <<>> /\ ~failed(parser))
        /\ ~AllBlank(LeftAtCall) => HasReport("extra_character")
        /\ (InProtocol /\ fed = Len(doc) /\ HasTrailing(doc)
                /\ doc[Len(doc)] \notin Blank) =>
              HasReport("extra_character")

-----------------------------------------------------------------------------
(* C13 *)

\* a parser as constructed, with max_nesting_depth(n) called on it
Constructed(n) == max_nesting_depth(NewParser, n)

\* the document handed in one span to the parser m0: set_source, parse and,
\* unless parse reported an error, end_parse
WholeOn(m0, d, pol, dbl_ok) ==
    LET m == parse_from(set_source(m0, d), pol, dbl_ok, MaxFuel)
    IN IF failed(m) THEN m ELSE end_parse(Fresh(m), pol, dbl_ok)

\* reset was called with no input left unread, the document that follows
\* was fed in one span and the run is over
RunOverAfterReset ==
    /\ call.resets = 1 /\ ~call.unread /\ pc = "idle" /\ fed = Len(doc)
    /\ \/ call.op = "parse" /\ failed(parser)
       \/ /\ call.op = "end_parse"
          /\ source_exhausted(parser) \/ call.state = "done"

\* C13: after reset the parser yields, for the input that follows, the
\* events and errors of a newly constructed parser with the same depth cap.
ResetRestores ==
    (RunOverAfterReset /\ ~parser.overflow) =>
        LET r == WholeOn(Constructed(parser.max_depth), doc, env.pol, env.dbl_ok)
        IN /\ parser.events = r.events
           /\ parser.reports = r.reports
           /\ parser.ec = r.ec

-----------------------------------------------------------------------------
(* C14 *)

\* what the parser carries from one input span to the next
Carried(m) ==
    <<m.state, m.state_stack, m.nesting_depth, m.max_depth, m.line, m.column,
      m.is_negative, m.string_buffer, m.precision, m.cp, m.cp2>>

\* C14: set_source replaces the input span and puts the cursor at its first
\* character; state, state_stack, nesting_depth, line, column, is_negative,
\* string_buffer, precision, cp and cp2 are as before the call.
SetSourceKeepsParse ==
    [][ (call'.op = "set_source" /\ call'.chunks = call.chunks + 1) =>
            /\ Carried(parser') = Carried(parser)
            /\ parser'.input = SubSeq(doc, fed + 1, fed')
            /\ parser'.p = 1 ]_vars

\* a span was installed in the middle of a number and of a string
SetSourceKeepsParseWitness ==
    /\ call.op = "set_source" /\ call.chunks >= 2
    /\ parser.state \in {"integer", "string_u1"}
    /\ parser.string_buffer # <<>>
    /\ parser.p = 1

-----------------------------------------------------------------------------
(* C15 *)

\* the containers that are open, counted on the stack
RECURSIVE Open(_)
Open(stack) ==
    IF stack = <<>> THEN 0
    ELSE (IF stack[1] \in {"object", "array"} THEN 1 ELSE 0) + Open(Tail(stack))

\* the loop body has just met the opening character of a container
OpensContainer ==
    /\ pc = "body" /\ pc' = "parse"
    /\ parser'.nesting_depth = parser.nesting_depth + 1

LastReport(m) == m.reports[Len(m.reports)]

\* C15: with the cap N set by max_nesting_depth, opening a container when N
\* containers are already open (the N+1st nested container) reports
\* max_depth_exceeded to the error policy.
DepthCapReported ==
    [][ (OpensContainer /\ Open(parser.state_stack) >= parser.max_depth) =>
            /\ Len(parser'.reports) = Len(parser.reports) + 1
            /\ LastReport(parser').kind = "max_depth_exceeded" ]_vars

\* the policy let the parse go on and N+1 containers are open at once
DepthCapReportedWitness ==
    /\ parser.max_depth \in DepthCaps
    /\ Open(parser.state_stack) = parser.max_depth + 1
    /\ HasReport("max_depth_exceeded")
    /\ ~failed(parser)

-----------------------------------------------------------------------------
(* C16 *)

\* how deep the containers of the text d nest, from its i-th character on,
\* with open containers open and best the deepest seen (no document of the
\* model has a bracket inside a string)
RECURSIVE NestingFrom(_, _, _, _)
NestingFrom(d, i, open, best) ==
    IF i > Len(d) THEN best
    ELSE IF d[i] \in {Ch("["), Ch("{")}
    THEN NestingFrom(d, i + 1, open + 1, IF open + 1 > best THEN open + 1 ELSE best)
    ELSE IF d[i] \in {Ch("]"), Ch("}")} /\ open > 0
    THEN NestingFrom(d, i + 1, open - 1, best)
    ELSE NestingFrom(d, i + 1, open, best)

Nesting(d) == NestingFrom(d, 1, 0, 0)

\* C16: with a depth cap N >= 1, an input whose containers nest at most N
\* deep never has max_depth_exceeded reported.
WithinCapUnreported ==
    (InProtocol /\ parser.max_depth \in DepthCaps
        /\ Nesting(doc) <= parser.max_depth) =>
        ~HasReport("max_depth_exceeded")

-----------------------------------------------------------------------------
(* C17 *)

\* the states entered for a line break or a comment, which save the state
\* they return to on the stack
Transient == {"cr", "lf", "slash", "slash_star", "slash_slash", "slash_star_star"}

\* the parser is done, or done waits on the stack under a transient frame
DoneReached(m) ==
    \/ m.state = "done"
    \/ m.state \in Transient /\ parent(m) = "done"

\* C17: once the state is done, or done is saved on the stack under a
\* cr, lf or comment frame, no call other than reset sends an event to the
\* sink.
DoneIsTerminal ==
    [][ (DoneReached(parser) /\ call'.op # "reset") =>
            parser'.events = parser.events ]_vars

\* parse was called on a done parser with input to read and has returned
DoneIsTerminalWitness ==
    /\ pc = "idle" /\ call.state = "done" /\ DoneReached(parser)
    /\ call.op = "parse" /\ ~source_exhausted(parser)
    /\ parser.events # <<>>

-----------------------------------------------------------------------------
(* C18 *)

\* the i-th character of d ends a line: a CR not followed by LF, or a LF
EndsLine(d, i) ==
    \/ d[i] = Ch("LF")
    \/ d[i] = Ch("CR") /\ ~(i < Len(d) /\ d[i + 1] = Ch("LF"))

\* the 1-based line of the i-th character of d
LineOf(d, i) == 1 + Cardinality({ j \in 1..(i - 1) : EndsLine(d, j) })

\* the 1-based column of the i-th character of d
ColumnOf(d, i) ==
    LET breaks == { j \in 1..(i - 1) : EndsLine(d, j) }
        last == IF breaks = {} THEN 0
                ELSE CHOOSE j \in breaks : \A k \in breaks : k <= j
    IN i - last

\* where in the document the cursor of the current span stood at a report
PlaceInDoc(r) == fed - Len(parser.input) + r.p

\* C18: at every report to the error policy about a character of the input,
\* line and column are the 1-based line and column of that character in the
\* document, CR LF being one line break, however the input is split.
ReportsAtCharacter ==
    (InProtocol /\ ~parser.overflow) =>
        \A i \in 1..Len(parser.reports) :
            LET r == parser.reports[i] IN
            r.p <= Len(parser.input) =>
                /\ r.line = LineOf(doc, PlaceInDoc(r))
                /\ r.column = ColumnOf(doc, PlaceInDoc(r))

-----------------------------------------------------------------------------
(* C19 *)

\* the innermost open container: the last object or array frame of the stack
RECURSIVE Innermost(_)
Innermost(stack) ==
    IF stack = <<>> THEN "none"
    ELSE IF stack[Len(stack)] \in {"object", "array"} THEN stack[Len(stack)]
    ELSE Innermost(SubSeq(stack, 1, Len(stack) - 1))

\* the states in which a closing character is read as a token
ClosingRead ==
    {"expect_comma_or_end", "expect_member_name_or_end", "expect_member_name",
     "expect_colon", "expect_value", "expect_value_or_end"} \cup PendingNumber

\* the character under the cursor closes the other kind of container
MismatchedClose(m) ==
    /\ ~source_exhausted(m)
    /\ \/ cur(m) = Ch("}") /\ Innermost(m.state_stack) = "array"
       \/ cur(m) = Ch("]") /\ Innermost(m.state_stack) = "object"

\* C19: a closing character that does not match the innermost open container
\* makes the parser call fatal_error and abort, whatever the error policy
\* answers.
MismatchIsFatal ==
    [][ (pc = "body" /\ pc' = "parse" /\ InProtocol
            /\ parser.state \in ClosingRead /\ MismatchedClose(parser)) =>
            /\ failed(parser')
            /\ parser'.reports # <<>>
            /\ LastReport(parser').fatal ]_vars

-----------------------------------------------------------------------------
(* C20 *)

\* after a ',' the matching close of the innermost container is under the
\* cursor
CloseAfterComma(m) ==
    /\ ~source_exhausted(m)
    /\ \/ /\ m.state = "expect_value" /\ cur(m) = Ch("]")
          /\ Innermost(m.state_stack) = "array"
       \/ /\ m.state = "expect_member_name" /\ cur(m) = Ch("}")
          /\ Innermost(m.state_stack) = "object"

\* the events of a normal close of the innermost container of m
ClosingEvents(m) ==
    <<Ev(IF Innermost(m.state_stack) = "array" THEN "end_array" ELSE "end_object")>>
        \o (IF Len(m.state_stack) = 2 THEN <<Ev("end_json")>> ELSE <<>>)

\* the step closed the innermost container as a normal close does
ClosedNormally ==
    /\ parser'.events = parser.events \o ClosingEvents(parser)
    /\ parser'.nesting_depth = parser.nesting_depth - 1
    /\ parser'.state_stack = SubSeq(parser.state_stack, 1, Len(parser.state_stack) - 1)
    /\ parser'.state = IF Len(parser.state_stack) = 2 THEN "done"
                       ELSE "expect_comma_or_end"
    /\ parser'.p = parser.p + 1

\* the events of the text [1,] when the policy continues
TrailingCommaEvents ==
    <<Ev("begin_json"), Ev("begin_array"), EvNum("uinteger_value", 1),
      Ev("end_array"), Ev("end_json")>>

\* C20: the matching close right after a ',' (whitespace apart) is reported
\* as extra_comma, and when the policy continues the container is closed as
\* by a normal close; the text [1,] then yields begin_json, begin_array,
\* uinteger(1), end_array, end_json.
ExtraCommaCloses ==
    /\ [][ (pc = "body" /\ pc' = "parse" /\ InProtocol /\ ~parser'.overflow
               /\ CloseAfterComma(parser)) =>
               /\ Len(parser'.reports) = Len(parser.reports) + 1
               /\ LastReport(parser').kind = "extra_comma"
               /\ ~LastReport(parser').fatal
               /\ failed(parser') <=> LastReport(parser').abort
               /\ ~failed(parser') => ClosedNormally ]_vars
    /\ [](  (InProtocol /\ ~parser.overflow /\ ~failed(parser)
               /\ doc = Txt(<<"[", "1", ",", "]">>) /\ parser.state = "done") =>
               parser.events = TrailingCommaEvents )

\* [1,] was parsed to the end with a policy that continued at extra_comma
ExtraCommaClosesWitness ==
    /\ InProtocol /\ pc = "idle" /\ call.op = "parse"
    /\ doc = Txt(<<"[", "1", ",", "]">>)
    /\ parser.state = "done" /\ ~failed(parser)
    /\ HasReport("extra_comma")
    /\ parser.events = TrailingCommaEvents

-----------------------------------------------------------------------------
(* C21 *)

\* the positions of d, from the j-th on, at which a block comment ends: the
\* '/' of the first "*/" after each "/*" (inside tells whether j is within a
\* block comment; no document of the model has a '/' inside a string)
RECURSIVE BlockEnds(_, _, _)
BlockEnds(d, j, inside) ==
    IF j >= Len(d) THEN {}
    ELSE IF inside
    THEN IF d[j] = Ch("*") /\ d[j + 1] = Ch("/")
         THEN {j + 1} \cup BlockEnds(d, j + 2, FALSE)
         ELSE BlockEnds(d, j + 1, TRUE)
    ELSE IF d[j] = Ch("/") /\ d[j + 1] = Ch("*")
    THEN BlockEnds(d, j + 2, TRUE)
    ELSE BlockEnds(d, j + 1, FALSE)

\* where in the document the cursor stands
CursorInDoc == fed - Len(parser.input) + parser.p

\* the loop body is about to read the '/' that ends a block comment which the
\* policy let the parser skip
AtBlockEnd ==
    /\ pc = "body" /\ pc' = "parse" /\ InProtocol
    /\ parser.state \in {"slash_star", "slash_star_star"}
    /\ CursorInDoc \in BlockEnds(doc, 1, FALSE)

\* C21: a block comment that the policy lets the parser skip ends at the
\* first "*/" after its "/*", also when further '*' precede that "*/": the
\* next character is processed in the state that was current before the '/'.
BlockCommentEnds ==
    [][ AtBlockEnd =>
            /\ parser'.state = parent(parser)
            /\ parser'.state \notin Transient
            /\ parser'.p = parser.p + 1 ]_vars

-----------------------------------------------------------------------------
(* C22 *)

CommentStates == {"slash_star", "slash_slash", "slash_star_star"}

\* the parser is skipping a comment, a line break of a block comment included
InComment(m) ==
    \/ m.state \in CommentStates
    \/ m.state \in {"cr", "lf"} /\ parent(m) \in CommentStates

\* the stack without the frame a line break inside a comment has pushed
SavedStack(m) ==
    IF m.state \in {"cr", "lf"}
    THEN SubSeq(m.state_stack, 1, Len(m.state_stack) - 1)
    ELSE m.state_stack

\* the loop body reads a character in the state st
Reads(st) ==
    pc = "body" /\ pc' = "parse" /\ InProtocol /\ parser.state \in st

\* the character that ends the comment is under the cursor
AtCommentEnd ==
    \/ Reads({"slash_slash"}) /\ cur(parser) \in {Ch("CR"), Ch("LF")}
    \/ Reads({"slash_star_star"}) /\ cur(parser) = Ch("/")

\* the states in which a '/' outside a value starts a comment
BetweenValues ==
    {"start", "expect_comma_or_end", "expect_member_name_or_end",
     "expect_member_name", "expect_colon", "expect_value", "expect_value_or_end"}

\* the state a number leaves behind when it ends under the frame top
AfterValue(top) == IF top = "root" THEN "done" ELSE "expect_comma_or_end"

\* the '/' saves the current state, or the state the number it ends leaves
SlashSaves ==
    /\ (Reads(BetweenValues) /\ cur(parser) = Ch("/")) =>
            /\ parser'.state = "slash"
            /\ parser'.state_stack = Append(parser.state_stack, parser.state)
            /\ parser'.nesting_depth = parser.nesting_depth
    /\ (Reads(PendingNumber) /\ cur(parser) = Ch("/") /\ ~failed(parser')) =>
            /\ parser'.state = "slash"
            /\ parser'.state_stack =
                   Append(parser.state_stack, AfterValue(parent(parser)))
            /\ parser'.nesting_depth = parser.nesting_depth

\* no character of the comment after its '/' sends an event or moves the
\* saved frames
CommentSilent ==
    ((Reads({"slash"}) /\ cur(parser) \in {Ch("*"), Ch("/")})
        \/ (pc = "body" /\ pc' = "parse" /\ InProtocol /\ InComment(parser))) =>
            /\ parser'.events = parser.events
            /\ parser'.nesting_depth = parser.nesting_depth
            /\ (InComment(parser) /\ InComment(parser')) =>
                   SavedStack(parser') = SavedStack(parser)

\* the end of the comment takes the saved state back
CommentRestores ==
    AtCommentEnd =>
        /\ parser'.state = parent(parser)
        /\ parser'.state_stack =
               SubSeq(parser.state_stack, 1, Len(parser.state_stack) - 1)

-----------------------------------------------------------------------------
(* C23 *)

\* the i-th character of d is outside the strings of d (no string of the
\* model's documents has an escaped quote)
OutsideStrings(d, i) ==
    Cardinality({ j \in 1..(i - 1) : d[j] = Ch("QUOTE") }) % 2 = 0

\* the positions of the text d at which an integer part begins with '0' and
\* goes on with a digit
LeadingZeros(d) ==
    { i \in 1..(Len(d) - 1) :
        /\ d[i] = Ch("0") /\ d[i + 1] \in Digit0to9
        /\ OutsideStrings(d, i)
        /\ i > 1 => d[i - 1] \notin Digit0to9 \cup {Ch("."), Ch("e"), Ch("E"), Ch("+")}
        /\ (i > 2 /\ d[i - 1] = Ch("-")) => d[i - 2] \notin {Ch("e"), Ch("E")} }

\* numeric events among es
Numerics(es) == { i \in 1..Len(es) : es[i].k \in NumericKinds }

\* C23: a '0' that begins an integer part and is followed by a digit is
\* reported as leading_zero when the digit is read, no numeric event is sent
\* for the literal, and in {"a":01} the report is made at line 1, column 7.
LeadingZeroRefused ==
    \A i \in LeadingZeros(doc) :
        (InProtocol /\ ~call.ended /\ ~parser.overflow) =>
            /\ CursorInDoc <= i + 1
            /\ Numerics(parser.events) = {}
            /\ (pc = "idle" /\ call.op = "parse" /\ CursorInDoc = i + 1
                    /\ ~source_exhausted(parser)) =>
                  /\ parser.ec = "leading_zero"
                  /\ parser.reports # <<>>
                  /\ LastReport(parser).kind = "leading_zero"
                  /\ PlaceInDoc(LastReport(parser)) = i + 1
                  /\ doc = Txt(<<"{", "QUOTE", "a", "QUOTE", ":", "0", "1", "}">>) =>
                        (LastReport(parser).line = 1 /\ LastReport(parser).column = 7)

-----------------------------------------------------------------------------
(* C24 *)

\* C24: between characters, after whatever calls and also after a call that
\* returned an error, state_stack is not empty and its bottom is root.
StackHasRoot ==
    /\ parser.state_stack # <<>>
    /\ parser.state_stack[1] = "root"

-----------------------------------------------------------------------------
(* C25 *)

\* C25: between characters, also after a call that returned
\* max_depth_exceeded or a close-mismatch error, nesting_depth is the number
\* of object and array frames of state_stack, and is not negative.
DepthCountsFrames ==
    /\ parser.nesting_depth = Open(parser.state_stack)
    /\ parser.nesting_depth >= 0

-----------------------------------------------------------------------------
(* C26 *)

\* the step sent the event of a number, or the null_value that stands for a
\* number that could not be converted
EmitsNumber ==
    /\ parser.state \in NumberStates
    /\ ~parser'.overflow
    /\ \E i \in (Len(parser.events) + 1)..Len(parser'.events) :
           parser'.events[i].k \in NumericKinds \cup {"null_value"}

\* C26: right after a numeric event (uinteger_value, integer_value,
\* double_value or the null_value of the recovery), whether a terminator or
\* end_parse ended the number, string_buffer is empty and is_negative false.
NumberLeavesNothing ==
    [][ EmitsNumber =>
            (parser'.string_buffer = <<>> /\ ~parser'.is_negative) ]_vars

\* end_parse ended a negative number and left nothing behind
NumberLeavesNothingWitness ==
    /\ pc = "idle" /\ call.op = "end_parse" /\ call.state = "integer"
    /\ Len(parser.events) > call.events
    /\ \E i \in Added : parser.events[i].k = "integer_value"
                            /\ parser.events[i].n < 0
    /\ parser.string_buffer = <<>> /\ ~parser.is_negative

-----------------------------------------------------------------------------
(* C27 *)

\* the grammar -?(0|[1-9][0-9]*)(.[0-9]+)?([eE][+-]?[0-9]+)? as an automaton:
\* where it goes from the place at on the character c, "stop" if nowhere
Grammar(at, c) ==
    CASE at = "begin" /\ c = Ch("-") -> "sign"
      [] at \in {"begin", "sign"} /\ c = Ch("0") -> "nought"
      [] at \in {"begin", "sign"} /\ c \in Digit1to9 -> "digits"
      [] at = "digits" /\ c \in Digit0to9 -> "digits"
      [] at \in {"nought", "digits"} /\ c = Ch(".") -> "point"
      [] at \in {"point", "decimals"} /\ c \in Digit0to9 -> "decimals"
      [] at \in {"nought", "digits", "decimals"} /\ c \in {Ch("e"), Ch("E")} -> "e"
      [] at = "e" /\ c \in {Ch("+"), Ch("-")} -> "esign"
      [] at \in {"e", "esign", "exponent"} /\ c \in Digit0to9 -> "exponent"
      [] OTHER -> "stop"

Complete == {"nought", "digits", "decimals", "exponent"}

\* the longest piece of d from the i-th character on that the grammar
\* follows: the place reached and the first position not taken
RECURSIVE Literal(_, _, _)
Literal(d, i, at) ==
    IF i > Len(d) \/ Grammar(at, d[i]) = "stop" THEN [at |-> at, end |-> i]
    ELSE Literal(d, i + 1, Grammar(at, d[i]))

\* the literal matches the grammar and a terminator or the end follows
Good(d, l) ==
    l.at \in Complete /\ (l.end > Len(d) \/ d[l.end] \in NumberTerminators)

\* the literals of d from the i-th character on, up to and including the
\* first that is not good
RECURSIVE Literals(_, _)
Literals(d, i) ==
    IF i > Len(d) THEN <<>>
    ELSE IF OutsideStrings(d, i) /\ d[i] # Ch("QUOTE")
            /\ d[i] \in Digit0to9 \cup {Ch("-")}
    THEN LET l == Literal(d, i, "begin")
         IN IF Good(d, l) THEN <<l>> \o Literals(d, l.end) ELSE <<l>>
    ELSE Literals(d, i + 1)

\* the good literals of d that end at or before the position c
GoodUpTo(d, c) ==
    { i \in 1..Len(Literals(d, 1)) :
        Good(d, Literals(d, 1)[i]) /\ Literals(d, 1)[i].end <= c }

\* the first deviation from the grammar in d, if any
Deviations(d) ==
    { Literals(d, 1)[i].end : i \in { j \in 1..Len(Literals(d, 1)) :
                                        ~Good(d, Literals(d, 1)[j]) } }

\* C27: numeric events are sent only for literals that match the grammar
\* -?(0|[1-9][0-9]*)(.[0-9]+)?([eE][+-]?[0-9]+)? and are followed by a
\* terminator or by end_parse; at the character that deviates ('-', '.',
\* 'e', 'E' or an exponent sign without a digit after it, a character that is
\* no terminator after the digits) an error is returned and the literal
\* yields no numeric event.
NumbersFollowGrammar ==
    (InProtocol /\ ~parser.overflow /\ ~call.checked
        /\ (call.ended => Ended)) =>
        /\ Cardinality(Numerics(parser.events))
               <= Cardinality(GoodUpTo(doc, CursorInDoc))
        /\ \A dev \in Deviations(doc) :
              /\ CursorInDoc <= dev
              /\ (pc = "idle" /\ call.op = "parse" /\ CursorInDoc = dev
                      /\ ~source_exhausted(parser)) =>
                    (failed(parser) /\ parser.reports # <<>>
                        /\ PlaceInDoc(LastReport(parser)) = dev)
              /\ (Ended /\ dev > Len(doc) /\ call.state \in NumberStates) =>
                    parser.reports # <<>>

\* the text 1.x was read up to the x, which was refused
NumbersFollowGrammarWitness ==
    /\ InProtocol /\ pc = "idle" /\ call.op = "parse"
    /\ doc = Txt(<<"1", ".", "x">>)
    /\ Deviations(doc) = {3} /\ CursorInDoc = 3
    /\ failed(parser) /\ parser.reports # <<>>
    /\ Numerics(parser.events) = {}

-----------------------------------------------------------------------------
(* C28 *)

\* the first terminator of the span at or after the cursor of m
TerminatorAt(m) ==
    CHOOSE i \in m.p..Len(m.input) :
        /\ m.input[i] \in NumberTerminators
        /\ \A j \in m.p..(i - 1) : m.input[j] \notin NumberTerminators

\* C28: the step in which a terminator (whitespace, line break, ',', '}',
\* ']', '/') ends a number and the numeric event is sent does not consume
\* the terminator: the cursor is left on it and the parser in the state that
\* follows a value, for a later step to read it.
TerminatorLeft ==
    [][ (Reads(PendingNumber) /\ EmitsNumber /\ ~failed(parser')) =>
            /\ parser'.p = TerminatorAt(parser)
            /\ parser'.state = AfterValue(parent(parser)) ]_vars

-----------------------------------------------------------------------------
(* C29 *)

\* the positions of d at which a raw CR, LF or TAB stands inside a string
RawInString(d) ==
    { i \in 1..Len(d) :
        d[i] \in {Ch("CR"), Ch("LF"), Ch("TAB")} /\ ~OutsideStrings(d, i) }

\* d is one string without escapes
RawString(d) ==
    /\ Len(d) >= 2 /\ d[1] = Ch("QUOTE") /\ d[Len(d)] = Ch("QUOTE")
    /\ \A i \in 2..(Len(d) - 1) : d[i] \notin {Ch("QUOTE"), Ch("BSLASH")}

KeptChar(c) == c \notin IllegalControl

\* the text of the string d: its characters but the control characters other
\* than CR, LF and TAB, which are skipped
KeptText(d) == SelectSeq(SubSeq(d, 2, Len(d) - 1), KeptChar)

\* the step has read the i-th character of the document
ReadsPlace(i) ==
    /\ pc = "body" /\ InProtocol
    /\ CursorInDoc <= i /\ CursorInDoc' > i

\* C29: each raw CR, LF or TAB inside a string is reported as
\* illegal_character_in_string and, when the policy continues, kept: every
\* one of them, the LF of a CR LF pair too, is in the text of the event sent
\* for the string.
RawWhitespaceKept ==
    /\ [][ \A i \in RawInString(doc) : ReadsPlace(i) =>
              \E k \in (Len(parser.reports) + 1)..Len(parser'.reports) :
                  /\ parser'.reports[k].kind = "illegal_character_in_string"
                  /\ PlaceInDoc(parser'.reports[k]) = i ]_vars
    /\ []( (InProtocol /\ ~parser.overflow /\ RawString(doc)) =>
              \A k \in 1..Len(parser.events) :
                  parser.events[k].k = "string_value" =>
                      parser.events[k].t = KeptText(doc) )

-----------------------------------------------------------------------------
(* C30 *)

\* the characters at which string_u1 stops collecting
StringSpecial ==
    IllegalControl \cup {Ch("CR"), Ch("LF"), Ch("TAB"), Ch("QUOTE"), Ch("BSLASH")}

\* the position in the span of the character the step is about: the one
\* under the cursor, inside a string the first at which string_u1 stops
\* (0 if the span has none)
Concerned(m) ==
    IF m.state # "string_u1" THEN m.p
    ELSE IF \E i \in m.p..Len(m.input) : m.input[i] \in StringSpecial
    THEN CHOOSE i \in m.p..Len(m.input) :
             /\ m.input[i] \in StringSpecial
             /\ \A j \in m.p..(i - 1) : m.input[j] \notin StringSpecial
    ELSE 0

NoControlIn(t) == \A i \in 1..Len(t) : t[i] \notin IllegalControl

\* the loop body meets a control character other than CR, LF and TAB
MeetsControl ==
    /\ Reads(BetweenValues \cup {"string_u1"})
    /\ Concerned(parser) > 0
    /\ parser.input[Concerned(parser)] \in IllegalControl

\* C30: a control character 0x00-0x1F other than CR, LF and TAB is reported
\* as illegal_control_character, inside a string and in start,
\* expect_comma_or_end, expect_member_name_or_end, expect_member_name,
\* expect_colon, expect_value and expect_value_or_end alike; when the policy
\* continues it is consumed, enters no text, and the next character is read.
ControlSkipped ==
    [][ MeetsControl =>
            /\ Len(parser'.reports) = Len(parser.reports) + 1
            /\ LastReport(parser').kind = "illegal_control_character"
            /\ LastReport(parser').p = Concerned(parser)
            /\ ~failed(parser') =>
                  /\ parser'.p = Concerned(parser) + 1
                  /\ NoControlIn(parser'.string_buffer)
                  /\ \A k \in 1..Len(parser'.events) :
                         NoControlIn(parser'.events[k].t) ]_vars

-----------------------------------------------------------------------------
(* C31 *)

\* the positions of d from the i-th on that follow a backslash inside a
\* string ("escape") or are one of the four positions after \u ("hex"); at
\* tells what the i-th position is: "out" of a string, "in" one, "escape",
\* or the hex position "1".."4"
RECURSIVE EscapePlaces(_, _, _)
EscapePlaces(d, i, at) ==
    IF i > Len(d) THEN {}
    ELSE CASE at = "out" ->
                EscapePlaces(d, i + 1, IF d[i] = Ch("QUOTE") THEN "in" ELSE "out")
           [] at = "in" ->
                EscapePlaces(d, i + 1,
                             IF d[i] = Ch("QUOTE") THEN "out"
                             ELSE IF d[i] = Ch("BSLASH") THEN "escape" ELSE "in")
           [] at = "escape" ->
                {[pos |-> i, is |-> "escape"]}
                    \cup EscapePlaces(d, i + 1, IF d[i] = Ch("u") THEN "1" ELSE "in")
           [] at = "1" -> {[pos |-> i, is |-> "hex"]} \cup EscapePlaces(d, i + 1, "2")
           [] at = "2" -> {[pos |-> i, is |-> "hex"]} \cup EscapePlaces(d, i + 1, "3")
           [] at = "3" -> {[pos |-> i, is |-> "hex"]} \cup EscapePlaces(d, i + 1, "4")
           [] at = "4" -> {[pos |-> i, is |-> "hex"]} \cup EscapePlaces(d, i + 1, "in")

\* the places of d at which an escape goes wrong, with the error the
\* specification names for each
BadEscapes(d) ==
    { [pos |-> e.pos,
       kind |-> IF e.is = "hex" THEN "invalid_hex_escape_sequence"
                ELSE "illegal_escaped_character"] :
        e \in { x \in EscapePlaces(d, 1, "out") :
                  \/ x.is = "hex" /\ d[x.pos] \notin HexDigit
                  \/ x.is = "escape" /\ d[x.pos] \notin SimpleEscapes \cup {Ch("u")} } }

\* C31: a character that is no hexadecimal digit in one of the hex positions
\* of a \uXXXX escape is reported as invalid_hex_escape_sequence, and a
\* backslash followed by a character outside " \ / b f n r t u as
\* illegal_escaped_character.
BadEscapeReported ==
    [][ \A e \in BadEscapes(doc) :
            ( \/ ReadsPlace(e.pos)
              \/ /\ pc = "body" /\ InProtocol
                 /\ parser'.ec # "ok" /\ CursorInDoc' = e.pos ) =>
                \E k \in (Len(parser.reports) + 1)..Len(parser'.reports) :
                    /\ parser'.reports[k].kind = e.kind
                    /\ PlaceInDoc(parser'.reports[k]) = e.pos ]_vars
-----------------------------------------------------------------------------
(* C32 *)

HexOf(c) ==
    CASE c \in 48..57 -> c - 48 [] c \in 65..70 -> c - 55 [] c \in 97..102 -> c - 87

\* the number written by the four characters of d from the i-th on
Hex4(d, i) ==
    ((HexOf(d[i]) * 16 + HexOf(d[i + 1])) * 16 + HexOf(d[i + 2])) * 16 + HexOf(d[i + 3])

\* a \uXXXX escape starts at the i-th character of d
EscapeUAt(d, i) ==
    /\ i + 5 <= Len(d)
    /\ [pos |-> i + 1, is |-> "escape"] \in EscapePlaces(d, 1, "out")
    /\ d[i + 1] = Ch("u")
    /\ \A k \in (i + 2)..(i + 5) : d[k] \in HexDigit

HighSurrogates == 55296..56319

LowSurrogates == 56320..57343

\* the places of d right after a \uXXXX escape of a high surrogate
AfterHigh(d) ==
    { i + 6 : i \in { k \in 1..Len(d) :
                        EscapeUAt(d, k) /\ Hex4(d, k + 2) \in HighSurrogates
                        /\ k + 6 <= Len(d) } }

\* the places after a high surrogate where something else than \u comes
PairMissing(d) ==
    { j \in AfterHigh(d) : d[j] # Ch("BSLASH") }
        \cup { j + 1 : j \in { k \in AfterHigh(d) :
                                 /\ d[k] = Ch("BSLASH") /\ k + 1 <= Len(d)
                                 /\ d[k + 1] # Ch("u") } }

\* d is one string made of a high surrogate escape and a second escape
PairDoc(d) ==
    /\ Len(d) = 14 /\ d[1] = Ch("QUOTE") /\ d[14] = Ch("QUOTE")
    /\ EscapeUAt(d, 2) /\ Hex4(d, 4) \in HighSurrogates
    /\ EscapeUAt(d, 8)

\* 0x10000 + ((cp & 0x3FF) << 10) + (cp2 & 0x3FF)
PairScalar(cp, cp2) == 65536 + (cp % 1024) * 1024 + (cp2 % 1024)

\* C32: after the escape of a high surrogate (0xD800..0xDBFF) anything else
\* than a backslash and a 'u' is reported as
\* expected_codepoint_surrogate_pair; once the second code unit is read the
\* scalar 0x10000 + ((cp & 0x3FF) << 10) + (cp2 & 0x3FF) is appended to the
\* string, and it lies in 0x10000..0x10FFFF when cp2 is in 0xDC00..0xDFFF.
SurrogatePairCombined ==
    /\ [][ \A j \in PairMissing(doc) :
             ( /\ pc = "body" /\ InProtocol /\ parser.state \in StringStates
               /\ CursorInDoc <= j /\ j <= CursorInDoc' /\ j <= fed ) =>
                 /\ parser'.ec # NoErr
                 /\ CursorInDoc' = j
                 /\ LastReport(parser').kind = "expected_codepoint_surrogate_pair"
                 /\ PlaceInDoc(LastReport(parser')) = j ]_vars
    /\ []( (InProtocol /\ PairDoc(doc)) =>
             \A k \in 1..Len(parser.events) :
                 parser.events[k].k = "string_value" =>
                     LET cp == Hex4(doc, 4)
                         cp2 == Hex4(doc, 10)
                     IN /\ parser.events[k].t = <<PairScalar(cp, cp2)>>
                        /\ cp2 \in LowSurrogates =>
                               /\ parser.events[k].t[1] >= 65536
                               /\ parser.events[k].t[1] <= 1114111 )

\* 𝄞 was read as U+1D11E
SurrogatePairCombinedWitness ==
    /\ InProtocol /\ doc = Txt(<<"QUOTE", "BSLASH", "u", "D", "8", "3", "4",
                                 "BSLASH", "u", "D", "D", "1", "E", "QUOTE">>)
    /\ \E k \in 1..Len(parser.events) :
           parser.events[k].k = "string_value" /\ parser.events[k].t = <<119070>>

-----------------------------------------------------------------------------
(* C33 *)

\* the strings of d from the i-th character on, each as <<place of its
\* opening quote, place of its closing quote>>; open is the place of the
\* opening quote of the string the i-th character is in, 0 outside a string
RECURSIVE StringSpans(_, _, _)
StringSpans(d, i, open) ==
    IF i > Len(d) THEN {}
    ELSE IF open = 0
    THEN StringSpans(d, i + 1, IF d[i] = Ch("QUOTE") THEN i ELSE 0)
    ELSE IF d[i] = Ch("QUOTE") THEN {<<open, i>>} \cup StringSpans(d, i + 1, 0)
    ELSE IF d[i] = Ch("BSLASH") THEN StringSpans(d, i + 2, open)
    ELSE StringSpans(d, i + 1, open)

\* what a well-formed escape stands for
EscapeText(c) ==
    CASE c = Ch("b") -> 8 [] c = Ch("f") -> 12 [] c = Ch("n") -> 10
      [] c = Ch("r") -> 13 [] c = Ch("t") -> 9 [] OTHER -> c

\* the characters of d from the i-th to the j-th are those of a string
\* without raw control characters and with well-formed escapes only, none
\* of them a surrogate
RECURSIVE CleanText(_, _, _)
CleanText(d, i, j) ==
    IF i > j THEN TRUE
    ELSE IF d[i] = Ch("BSLASH")
    THEN IF i + 1 > j THEN FALSE
         ELSE IF d[i + 1] \in SimpleEscapes THEN CleanText(d, i + 2, j)
         ELSE /\ d[i + 1] = Ch("u") /\ i + 5 <= j
              /\ \A k \in (i + 2)..(i + 5) : d[k] \in HexDigit
              /\ Hex4(d, i + 2) \notin HighSurrogates
              /\ CleanText(d, i + 6, j)
    ELSE d[i] \notin (0..31) /\ CleanText(d, i + 1, j)

\* the text the characters of d from the i-th to the j-th stand for
RECURSIVE ResolvedText(_, _, _)
ResolvedText(d, i, j) ==
    IF i > j THEN <<>>
    ELSE IF d[i] = Ch("BSLASH")
    THEN IF d[i + 1] = Ch("u")
         THEN <<Hex4(d, i + 2)>> \o ResolvedText(d, i + 6, j)
         ELSE <<EscapeText(d[i + 1])>> \o ResolvedText(d, i + 2, j)
    ELSE <<d[i]>> \o ResolvedText(d, i + 1, j)

CleanStrings(d) ==
    { s \in StringSpans(d, 1, 0) : CleanText(d, s[1] + 1, s[2] - 1) }

\* a clean string without any escape
PlainStrings(d) ==
    { s \in CleanStrings(d) :
        \A i \in (s[1] + 1)..(s[2] - 1) : d[i] # Ch("BSLASH") }

\* the first place of the chunk being read
ChunkStart == fed - Len(parser.input) + 1

TextEvents == {"string_value", "name"}

\* C33: while a string or a name without escapes and illegal characters that
\* lies within one chunk is read, string_buffer stays empty, and the text
\* sent is the characters between the quotes; a string with escapes is sent
\* as its resolved text; string_buffer is empty once the text is sent.
StringTextSent ==
    /\ []( InProtocol =>
             \A s \in PlainStrings(doc) :
                 ( /\ ChunkStart <= s[1] /\ s[2] <= fed
                   /\ s[1] < CursorInDoc /\ CursorInDoc <= s[2] + 1 ) =>
                     parser.string_buffer = <<>> )
    /\ [][ \A s \in CleanStrings(doc) :
             ( /\ ReadsPlace(s[2]) /\ ~parser'.overflow
               /\ Len(parser'.events) > Len(parser.events) ) =>
                 /\ \E k \in (Len(parser.events) + 1)..Len(parser'.events) :
                        /\ parser'.events[k].k \in TextEvents
                        /\ parser'.events[k].t = ResolvedText(doc, s[1] + 1, s[2] - 1)
                 /\ parser'.string_buffer = <<>> ]_vars

\* a string with an escape was sent after a part of it was resolved in
\* string_buffer
StringTextSentWitness ==
    /\ InProtocol /\ pc = "idle"
    /\ doc = Txt(<<"QUOTE", "a", "BSLASH", "n", "b", "QUOTE">>)
    /\ parser.string_buffer = <<>>
    /\ \E k \in 1..Len(parser.events) :
           /\ parser.events[k].k = "string_value"
           /\ parser.events[k].t = <<Ch("a"), 10, Ch("b")>>

-----------------------------------------------------------------------------
(* C34 *)

LineBreaks == {Ch("CR"), Ch("LF")}

\* the states in which a line break is part of the text: the structural
\* states, the block comment and the string
BreakTakers == BetweenValues \cup {"slash_star"} \cup StringStates

\* the state that reads a line break when parse works in state s: a string
\* reads all its characters under the label string_u1
Taker(s) == IF s \in StringStates THEN "string_u1" ELSE s

\* this step consumes a line break of a structural state, a comment or a
\* string
TakesBreak ==
    /\ pc = "body" /\ pc' = "parse" /\ InProtocol
    /\ parser'.state \in {"cr", "lf"}
    /\ \/ parser.state \in BetweenValues \cup {"slash_star"} /\ cur(parser) \in LineBreaks
       \/ parser.state \in StringStates

\* this step is the one of state cr or lf after such a line break
CountsBreak ==
    /\ pc = "body" /\ pc' = "parse" /\ InProtocol
    /\ parser.state \in {"cr", "lf"}
    /\ parent(parser) \in BreakTakers

\* C34: a line break consumed in a structural state, in a comment or in a
\* string adds exactly one to line and sets column to 1 before the next
\* character is processed in the saved state; CR LF is one break, also when
\* a chunk ends between the two; the state restored is the one that
\* consumed the CR or LF.
LineBreakCounted ==
    /\ [][ TakesBreak =>
             /\ parent(parser') = Taker(parser.state)
             /\ parser'.line = parser.line ]_vars
    /\ [][ CountsBreak =>
             /\ parser'.line = parser.line + 1
             /\ parser'.column = 1
             /\ parser'.state = parent(parser)
             /\ parser'.p = IF parser.state = "cr" /\ cur(parser) = Ch("LF")
                            THEN parser.p + 1 ELSE parser.p ]_vars
    /\ []( ( /\ pc = "body" /\ InProtocol
             /\ parser.state \in BreakTakers \ (StringStates \ {"string_u1"}) ) =>
               parser.line = LineOf(doc, CursorInDoc) )

-----------------------------------------------------------------------------
(* C35 *)

KeywordTexts ==
    { Txt(<<"n", "u", "l", "l">>), Txt(<<"t", "r", "u", "e">>),
      Txt(<<"f", "a", "l", "s", "e">>) }

KeywordOf(c) == CHOOSE k \in KeywordTexts : k[1] = c

Letters == 97..122

\* the places of d where a keyword begins
KeywordStarts(d) ==
    { i \in 1..Len(d) :
        /\ d[i] \in {Ch("n"), Ch("t"), Ch("f")}
        /\ OutsideStrings(d, i)
        /\ i > 1 => d[i - 1] \notin Letters }

\* the places of d where a character is not the one the keyword begun
\* before it goes on with
WrongInKeyword(d) ==
    { j \in 1..Len(d) :
        \E i \in KeywordStarts(d) :
            /\ i < j /\ j < i + Len(KeywordOf(d[i]))
            /\ d[j] # KeywordOf(d[i])[j - i + 1]
            /\ \A k \in (i + 1)..(j - 1) : d[k] = KeywordOf(d[i])[k - i + 1] }

KeywordEvents == {"null_value", "bool_value"}

\* the run of parse over the whole document given as one chunk, in which
\* every complete keyword is read by parse_null / parse_true / parse_false
FastRun ==
    parse_from(set_source(Constructed(parser.max_depth), doc),
               env.pol, env.dbl_ok, MaxFuel)

\* C35: a keyword cut by a chunk boundary at any place is read through the
\* states n nu nul, t tr tru, f fa fal fals with the same single value event
\* and the same state after it as by the look-ahead of parse_null /
\* parse_true / parse_false; a keyword prefix followed by a wrong character
\* gives invalid_value on both paths and no value event.
KeywordSplitAgrees ==
    ( /\ InProtocol /\ pc = "idle" /\ call.op = "parse" /\ ~parser.overflow
      /\ KeywordStarts(doc) # {} ) =>
        /\ (fed = Len(doc) \/ failed(parser)) =>
              /\ parser.events = FastRun.events
              /\ parser.ec = FastRun.ec
              /\ ~failed(parser) =>
                    /\ parser.state = FastRun.state
                    /\ parser.state_stack = FastRun.state_stack
        /\ \A j \in WrongInKeyword(doc) :
              /\ CursorInDoc <= j
              /\ \A k \in 1..Len(parser.events) :
                     parser.events[k].k \notin KeywordEvents
              /\ fed >= j => parser.ec = "invalid_value"

\* a keyword cut after its second character has been read to its end
KeywordSplitAgreesWitness ==
    /\ InProtocol /\ pc = "idle" /\ call.op = "parse" /\ call.state = "tr"
    /\ fed = Len(doc) /\ call.chunks = 2
    /\ doc = Txt(<<"LF", "t", "r", "u", "e">>)
    /\ parser.state = "done"
    /\ \E k \in 1..Len(parser.events) : parser.events[k] = EvBool(TRUE)

-----------------------------------------------------------------------------
(* C36 *)

\* a step of parse or a call of end_parse within the protocol
WorksOnNumber ==
    /\ \/ pc = "body"
       \/ pc = "idle" /\ pc' = "idle" /\ call'.op = "end_parse" /\ call'.ended /\ ~call.ended
    /\ call'.odd = 0 /\ call'.resets = 0

\* what the step gives when str_to_double succeeds
Converted ==
    IF pc = "body" THEN parse_step(parser, env.pol, TRUE)
    ELSE end_parse(Fresh(parser), env.pol, TRUE)

\* the place of the double_value among the events of Converted, 0 if none
DoubleSent ==
    LET new == { k \in (Len(parser.events) + 1)..Len(Converted.events) :
                   Converted.events[k].k = "double_value" }
    IN IF new = {} THEN 0 ELSE CHOOSE k \in new : TRUE

\* the reports of the step
NewReports ==
    IF pc = "body"
    THEN SubSeq(parser'.reports, Len(parser.reports) + 1, Len(parser'.reports))
    ELSE parser'.reports

\* C36: when str_to_double fails for a number that is to be sent,
\* invalid_number is reported; if the policy continues exactly one
\* null_value is sent in place of the number, the numeric buffers are cleared
\* and the state changes as after a number; if the policy aborts no value
\* event is sent.
FailedConversionRecovered ==
    [][ ( /\ WorksOnNumber /\ ~env.dbl_ok
          /\ DoubleSent > 0 /\ ~Converted.overflow /\ ~parser'.overflow ) =>
            /\ Cardinality({ k \in 1..Len(NewReports) :
                               NewReports[k].kind = "invalid_number" }) = 1
            /\ IF "invalid_number" \in env.pol
               THEN /\ parser'.ec = "invalid_number"
                    /\ parser'.events = parser.events
               ELSE /\ parser'.events =
                           [Converted.events EXCEPT ![DoubleSent] = Ev("null_value")]
                    /\ parser'.string_buffer = <<>> /\ ~parser'.is_negative
                    /\ parser'.state = Converted.state
                    /\ parser'.state_stack = Converted.state_stack
                    /\ parser'.p = Converted.p
                    /\ parser'.ec = Converted.ec ]_vars

\* [300] was read as [null] after the conversion of 300 failed
FailedConversionRecoveredWitness ==
    /\ InProtocol /\ ~env.dbl_ok /\ "invalid_number" \notin env.pol
    /\ doc = Txt(<<"[", "3", "0", "0", "]">>)
    /\ parser.state = "done"
    /\ Len(parser.events) = 5
    /\ parser.events[3] = Ev("null_value")
    /\ parser.events[4].k = "end_array"

-----------------------------------------------------------------------------
(* C37 *)

Exponents == {Ch("e"), Ch("E")}

\* the text d holds a literal with a fraction or an exponent
HasPointOrExp(d) == \E i \in 1..Len(d) : d[i] \in Exponents \cup {Ch(".")}

\* the digits of the integer part and of the fraction part of the literal
\* in d: those before its exponent
MantissaDigits(d) ==
    Cardinality({ i \in 1..Len(d) :
                    /\ d[i] \in Digit0to9
                    /\ \A j \in 1..(i - 1) : d[j] \notin Exponents })

\* C37: the precision sent with the double_value of a literal that has a
\* fraction or an exponent is the number of digits of its integer part plus
\* the number of digits of its fraction part, however long the literal is.
PrecisionCountsDigits ==
    (InProtocol /\ HasPointOrExp(doc) /\ (call.ended => Ended)) =>
        \A k \in 1..Len(parser.events) :
            parser.events[k].k = "double_value" =>
                parser.events[k].n = MantissaDigits(doc)

-----------------------------------------------------------------------------
(* C38 *)

\* the states whose cases call parse_null, parse_true and parse_false
KeywordCallers == {"start", "expect_value", "expect_value_or_end"}

\* the loop body is about to read a keyword by look-ahead
LooksAhead ==
    /\ pc = "body"
    /\ parser.state \in KeywordCallers
    /\ cur(parser) \in {Ch("n"), Ch("t"), Ch("f")}
    /\ keyword_fits(parser, KeywordOf(cur(parser)))

\* the highest index the look-ahead reads: p_ + 3, p_ + 4 in parse_false
LookAheadReach == parser.p + Len(KeywordOf(cur(parser))) - 1

\* C38: the cursor stays within the current span, begin_input <= p <=
\* end_input; every character is read at an index below end_input, the
\* look-ahead of parse_null / parse_true / parse_false included; parse_number
\* and parse_string stop at the end of the input and keep their sub-state.
CursorInSpan ==
    /\ []( /\ 1 <= parser.p /\ parser.p <= end_input(parser)
           /\ pc = "body" => parser.p < end_input(parser)
           /\ LooksAhead => LookAheadReach < end_input(parser) )
    /\ [][ pc = "body" =>
             /\ parser.p <= parser'.p
             /\ parser'.p <= end_input(parser)
             /\ parser'.input = parser.input ]_vars

\* true is read by look-ahead when its four characters are the last of the
\* span
CursorInSpanWitness ==
    /\ LooksAhead /\ InProtocol
    /\ cur(parser) = Ch("t")
    /\ LookAheadReach = end_input(parser) - 1

-----------------------------------------------------------------------------
(* C39 *)

\* the step is the one of state cr or lf after a raw line break of a string
\* on which the policy continued
BreakInStringCounted ==
    /\ pc = "body" /\ InProtocol
    /\ parser.state \in {"cr", "lf"}
    /\ (CursorInDoc - 1) \in RawInString(doc)
    /\ doc[CursorInDoc - 1] \in LineBreaks

\* C39: after a raw CR or LF inside a string on which the policy continues,
\* the state restored by cr / lf is string_u1, in whatever state the parse
\* call that read the line break had resumed.
StringResumesAfterBreak ==
    [][ BreakInStringCounted => parser'.state = "string_u1" ]_vars

-----------------------------------------------------------------------------
(* C40 *)

\* the frame under the top of the stack, "none" if there is only one
Below(m) ==
    IF Len(m.state_stack) < 2 THEN "none"
    ELSE m.state_stack[Len(m.state_stack) - 1]

\* a member name is being read: the parser is in its string, or in a line
\* break inside it
ReadingName(m) ==
    \E i \in 1..Len(m.state_stack) :
        /\ m.state_stack[i] = "member_name"
        /\ i > 1 /\ m.state_stack[i - 1] = "object"
        /\ \A j \in (i + 1)..Len(m.state_stack) : m.state_stack[j] \in StringStates
        /\ IF i = Len(m.state_stack) THEN m.state \in StringStates
           ELSE m.state \in {"cr", "lf"}

\* C40: the structural state agrees with the innermost frame: the top of
\* state_stack is object in expect_member_name_or_end, expect_member_name and
\* expect_colon, array in expect_value_or_end, object or array in
\* expect_value and expect_comma_or_end; a member_name frame is on the stack
\* only while the string of a member name is read, directly above an object
\* frame.
StateAgreesWithFrame ==
    /\ parser.state \in {"expect_member_name_or_end", "expect_member_name",
                         "expect_colon"} => parent(parser) = "object"
    /\ parser.state = "expect_value_or_end" => parent(parser) = "array"
    /\ parser.state \in {"expect_value", "expect_comma_or_end"} =>
           parent(parser) \in {"object", "array"}
    /\ (\E i \in 1..Len(parser.state_stack) : parser.state_stack[i] = "member_name")
           => ReadingName(parser)

\* the name of a member is being read in the object that holds it
StateAgreesWithFrameWitness ==
    /\ parser.state = "string_u1" /\ parent(parser) = "member_name"
    /\ Below(parser) = "object" /\ Len(parser.state_stack) = 3
    /\ InProtocol /\ pc = "body"

====
